---- MODULE Spec2Model ----
(***************************************************************************)
(* Content graph construction and structural analysis of the WordPress     *)
(* SEO analyzer: utils.clean_html, GraphBuilder (graph_builder.py) and     *)
(* ContentAnalyzer (content_analyzer.py).                                  *)
(*                                                                         *)
(* Texts are sequences of tokens [k, n].  A token is one of the characters *)
(* "<", ">", "SP" (blank), "NL" (line break), "QUOTE", or an atom: a run   *)
(* of non-blank, non-markup characters ("h2", "##", "itemtype", ...).      *)
(* W(n) is an atom chain of n plain words separated by single blanks and   *)
(* U(u) is the absolute URL site_url/<path u>.                             *)
(* Scores are in tenths (0.3 is 3); similarities are in hundredths.        *)
(***************************************************************************)
EXTENDS Integers, Sequences, FiniteSets, Bags, TLC

VARIABLES
    bundle,     \* the RawContentBundle handed to build_content_graph
    nodes,      \* content_graph nodes: sequence of [id, data] in insertion order
    edges,      \* content_graph edges: bag of [s, t, type]
    pc,         \* position of build_content_graph / analyze_content_depth
    hashseed,   \* string-hash seed of the process: {} until hash() is first used
    exc,        \* exception that left build_content_graph ("none" if none)
    report,     \* depth_analysis returned by analyze_content_depth
    calls,      \* build_content_graph calls made on this GraphBuilder so far
    built,      \* what earlier build_content_graph calls returned, in order
    dparams,    \* how the text under calculate_content_depth was composed
    dtext,      \* node_data['content'] handed to calculate_content_depth
    dscore,     \* <<value returned by calculate_content_depth>>, <<>> before the call
    cdocs,      \* identify_semantic_clusters: node_ids, one per collected text
    cvec,       \* outcome of fit_transform: "pending", "ok" or "ValueError"
    sim,        \* similarity_matrix (hundredths)
    ci,         \* loop variable i of the greedy pass
    visited,    \* visited set of the greedy pass
    clusters,   \* clusters list of the greedy pass
    opened,     \* every cluster opened by the pass, kept or not, in order
    cpc,        \* position inside identify_semantic_clusters
    raw_html,   \* the string handed to clean_html
    cleaned,    \* what clean_html returned: <<>>, then <<once>>, then <<once, twice>>
    pinput,     \* query_patterns and depth_analysis handed to the report generator
    recommendations, \* list returned by generate_recommendations
    action_plan,     \* dict returned by create_action_plan
    ppc,        \* position of the report generator
    sitemaps,   \* what the site serves under each sitemap URL
    wstack,     \* call stack of parse_sitemap: frames [url, phase, pos]
    visited_sitemaps, \* visited_sitemaps of get_all_urls_from_sitemap
    urls,       \* urls of get_all_urls_from_sitemap
    fetches,    \* session.get calls made so far, per sitemap URL
    wpc         \* position of get_all_urls_from_sitemap

vars == <<bundle, nodes, edges, pc, hashseed, exc, report, calls, built,
          dparams, dtext, dscore,
          cdocs, cvec, sim, ci, visited, clusters, opened, cpc,
          raw_html, cleaned, pinput, recommendations, action_plan, ppc,
          sitemaps, wstack, visited_sitemaps, urls, fetches, wpc>>

buildVars == <<bundle, nodes, edges, pc, hashseed, exc, report, calls, built>>
runVars == <<calls, built>>
depthVars == <<dparams, dtext, dscore>>
clusterVars == <<cdocs, cvec, sim, ci, visited, clusters, opened, cpc>>
cleanVars == <<raw_html, cleaned>>
planVars == <<pinput, recommendations, action_plan, ppc>>
walkVars == <<sitemaps, wstack, visited_sitemaps, urls, fetches, wpc>>
restVars == <<cleanVars, planVars, walkVars>>

\* the parts of the state a specification does not use
NoBuild ==
    /\ bundle = <<>> /\ nodes = <<>> /\ edges = EmptyBag /\ pc = "off"
    /\ hashseed = {} /\ exc = "none" /\ report = <<>>
    /\ calls = 0 /\ built = <<>>

NoDepth == dparams = <<>> /\ dtext = <<>> /\ dscore = <<>>

NoClean == raw_html = <<>> /\ cleaned = <<>>

NoPlan ==
    /\ pinput = <<>> /\ recommendations = <<>> /\ action_plan = <<>> /\ ppc = "off"

NoWalk ==
    /\ sitemaps = <<>> /\ wstack = <<>> /\ visited_sitemaps = {} /\ urls = {}
    /\ fetches = <<>> /\ wpc = "off"

NoRest == NoClean /\ NoPlan /\ NoWalk

NoCluster ==
    /\ cdocs = <<>> /\ cvec = "pending" /\ sim = <<>> /\ ci = 0
    /\ visited = {} /\ clusters = <<>> /\ opened = <<>> /\ cpc = "off"

(***************************************************************************)
(* Generic helpers                                                         *)
(***************************************************************************)
Min(a, b) == IF a < b THEN a ELSE b

RECURSIVE Rep(_, _)
Rep(s, n) == IF n = 0 THEN <<>> ELSE s \o Rep(s, n - 1)

(***************************************************************************)
(* Text tokens                                                             *)
(***************************************************************************)
Ch(k) == [k |-> k, n |-> 0]
W(n) == [k |-> "W", n |-> n]
U(u) == [k |-> "U", n |-> u]
SP == Ch("SP")
NL == Ch("NL")
LT == Ch("<")
GT == Ch(">")
QUOTE == Ch("QUOTE")

IsSpace(t) == t.k \in {"SP", "NL"}

(***************************************************************************)
(* str.split(): number of whitespace-separated words                       *)
(***************************************************************************)
RECURSIVE WordCountFrom(_, _, _)
WordCountFrom(text, i, inWord) ==
    IF i > Len(text) THEN 0
    ELSE IF IsSpace(text[i]) THEN WordCountFrom(text, i + 1, FALSE)
    ELSE (IF inWord THEN 0 ELSE 1)
         + (IF text[i].k = "W" /\ text[i].n > 0 THEN text[i].n - 1 ELSE 0)
         + WordCountFrom(text, i + 1, TRUE)

WordCount(text) == WordCountFrom(text, 1, FALSE)

\* str.count / "in" for a two-token marker such as '<h2' or '## '
CountPair(text, A, B) ==
    Cardinality({i \in 1..(Len(text) - 1) : text[i].k \in A /\ text[i + 1].k \in B})

HasAtom(text, A) == \E i \in 1..Len(text) : text[i].k \in A

(***************************************************************************)
(* ContentAnalyzer.calculate_content_depth, in tenths                      *)
(***************************************************************************)
SCORE_CAP == 10

\* the tiers written as three independent "if"s instead of if/elif/elif
WordCountBonusBad(word_count) ==
    (IF word_count > 2000 THEN 3 ELSE 0)
    + (IF word_count > 1000 THEN 2 ELSE 0)
    + (IF word_count > 500 THEN 1 ELSE 0)

WordCountBonus(word_count) ==
    IF word_count > 2000 THEN 3
    ELSE IF word_count > 1000 THEN 2
    ELSE IF word_count > 500 THEN 1
    ELSE 0

h2_count(content) ==
    CountPair(content, {"<"}, {"h2"}) + CountPair(content, {"##", "###"}, {"SP", "NL"})

h3_count(content) ==
    CountPair(content, {"<"}, {"h3"}) + CountPair(content, {"###"}, {"SP", "NL"})

\* the same sum with the list bonus subtracted instead of added
DepthSumListSubtracted(content) ==
    WordCountBonus(WordCount(content))
    + (IF h2_count(content) > 3 THEN 2 ELSE 0)
    + (IF h3_count(content) > 5 THEN 1 ELSE 0)
    + (IF CountPair(content, {"<"}, {"img"}) > 0 \/ HasAtom(content, {"[gallery"})
       THEN 1 ELSE 0)
    - (IF CountPair(content, {"<"}, {"ul", "ol"}) > 0
          \/ CountPair(content, {"-"}, {"SP", "NL"}) > 0
       THEN 1 ELSE 0)
    + (IF HasAtom(content, {"itemtype", "@type"}) THEN 2 ELSE 0)

DepthSum(content) ==
    WordCountBonus(WordCount(content))
    + (IF h2_count(content) > 3 THEN 2 ELSE 0)
    + (IF h3_count(content) > 5 THEN 1 ELSE 0)
    + (IF CountPair(content, {"<"}, {"img"}) > 0 \/ HasAtom(content, {"[gallery"})
       THEN 1 ELSE 0)
    + (IF CountPair(content, {"<"}, {"ul", "ol"}) > 0
          \/ CountPair(content, {"-"}, {"SP", "NL"}) > 0
       THEN 1 ELSE 0)
    + (IF HasAtom(content, {"itemtype", "@type"}) THEN 2 ELSE 0)

calculate_content_depth(content) == Min(DepthSum(content), SCORE_CAP)

(***************************************************************************)
(* SpecDepth: calculate_content_depth applied to composed texts            *)
(***************************************************************************)
MaxMd == 1                      \* markdown markers of each level in a text

WordCounts == {20, 500, 501, 1000, 1001, 1500, 2000, 2001}

DepthParams ==
    [words : WordCounts, h2tag : {0, 3, 4}, md2 : 0..MaxMd,
     h3tag : {0, 5, 6}, md3 : 0..MaxMd,
     img : {"none", "img", "gallery"},
     lst : {"none", "ul", "ol", "dash"},
     sch : {"none", "itemtype", "@type"}]

\* whitespace-separated marker words of a composed text
MarkerWords(p) ==
    p.h2tag + p.md2 + p.h3tag + p.md3
    + (IF p.img = "none" THEN 0 ELSE 1)
    + (IF p.lst = "none" THEN 0 ELSE 1)
    + (IF p.sch = "none" THEN 0 ELSE 1)

ComposeText(p) ==
    Rep(<<LT, Ch("h2"), SP>>, p.h2tag)
    \o Rep(<<Ch("##"), SP>>, p.md2)
    \o Rep(<<LT, Ch("h3"), SP>>, p.h3tag)
    \o Rep(<<Ch("###"), SP>>, p.md3)
    \o (CASE p.img = "img" -> <<LT, Ch("img"), SP>>
          [] p.img = "gallery" -> <<Ch("[gallery"), SP>>
          [] OTHER -> <<>>)
    \o (CASE p.lst = "ul" -> <<LT, Ch("ul"), SP>>
          [] p.lst = "ol" -> <<LT, Ch("ol"), SP>>
          [] p.lst = "dash" -> <<Ch("-"), SP>>
          [] OTHER -> <<>>)
    \o (CASE p.sch = "itemtype" -> <<Ch("itemtype"), SP>>
          [] p.sch = "@type" -> <<Ch("@type"), SP>>
          [] OTHER -> <<>>)
    \o <<W(p.words - MarkerWords(p))>>

InitDepth ==
    /\ NoBuild /\ NoCluster /\ NoRest
    /\ dparams \in DepthParams
    /\ dtext = ComposeText(dparams)
    /\ dscore = <<>>

CalcDepth ==
    /\ dscore = <<>> /\ dparams # <<>>
    /\ dscore' = <<calculate_content_depth(dtext)>>
    /\ UNCHANGED <<dparams, dtext>>
    /\ UNCHANGED buildVars /\ UNCHANGED clusterVars /\ UNCHANGED restVars

NextDepth == CalcDepth

SpecDepth == InitDepth /\ [][NextDepth]_vars

\* the composed text has the word count its parameters name
ComposedWordCount == dparams # <<>> => WordCount(dtext) = dparams.words

\* C5: for every content text, whatever combination of bonus conditions is
\* true, the returned depth score lies between 0.0 and 1.0 inclusive.
DepthScoreBounded == dscore # <<>> => (0 <= dscore[1] /\ dscore[1] <= SCORE_CAP)

\* a text on which every bonus condition is true has been scored
DepthAllBonusesScored ==
    /\ dscore = <<SCORE_CAP>>
    /\ dparams.words = 2001 /\ dparams.h2tag = 4 /\ dparams.h3tag = 6
    /\ dparams.img = "img" /\ dparams.lst = "dash" /\ dparams.sch = "@type"

\* the bonus table of the depth score, stated over the composition
TierBonus(n) == CASE n > 2000 -> 3 [] n > 1000 /\ n <= 2000 -> 2
                  [] n > 500 /\ n <= 1000 -> 1 [] OTHER -> 0

HeadingMarkers(p) == p.h2tag + p.md2 + p.md3     \* '## ' also occurs in '### '
SubHeadingMarkers(p) == p.h3tag + p.md3

ExpectedDepth(p) ==
    Min(10, TierBonus(p.words)
            + (IF HeadingMarkers(p) > 3 THEN 2 ELSE 0)
            + (IF SubHeadingMarkers(p) > 5 THEN 1 ELSE 0)
            + (IF p.img # "none" THEN 1 ELSE 0)
            + (IF p.lst # "none" THEN 1 ELSE 0)
            + (IF p.sch # "none" THEN 2 ELSE 0))

\* C6: the depth score is min(1.0, sum) of exactly one word-count tier bonus
\* (0.3 above 2000 words, else 0.2 above 1000, else 0.1 above 500), 0.2 for
\* more than 3 heading markers, 0.1 for more than 5 sub-heading markers, 0.1
\* for an image/gallery marker, 0.1 for a list marker, 0.2 for a schema
\* marker; boundary counts earn nothing from their rule.
DepthScoreIsBonusSum ==
    dscore # <<>> =>
        /\ dscore[1] = ExpectedDepth(dparams)
        /\ (dparams.words \in {500, 1000, 2000} /\ MarkerWords(dparams) = 0
              => dscore[1] = TierBonus(dparams.words - 1))

\* 1500 plain words scored exactly 0.2
DepthTierScored ==
    /\ dscore = <<2>> /\ dparams.words = 1500 /\ MarkerWords(dparams) = 0

(***************************************************************************)
(* ContentAnalyzer.identify_semantic_clusters                              *)
(*                                                                         *)
(* A collected document is [id, terms]: terms says whether the text holds  *)
(* a token the vectorizer keeps (two or more word characters and not an    *)
(* English stop word).  fit_transform raises ValueError on an empty        *)
(* vocabulary; a document without terms in a non-empty vocabulary gets a   *)
(* zero row, whose cosine similarity to everything, itself included, is 0. *)
(***************************************************************************)
SIM_THRESHOLD == 30
SIM_ONE == 100

Indices(s) == 1..Len(s)

EmptyVocabulary(docs) == \A i \in Indices(docs) : ~docs[i].terms

\* the matrices cosine_similarity can return for the collected documents
SimMatrices(docs, vals) ==
    LET above == {p \in Indices(docs) \X Indices(docs) : p[1] < p[2]}
    IN  {[p \in Indices(docs) \X Indices(docs) |->
            IF ~docs[p[1]].terms \/ ~docs[p[2]].terms THEN 0
            ELSE IF p[1] = p[2] THEN SIM_ONE
            ELSE IF p[1] < p[2] THEN f[p]
            ELSE f[<<p[2], p[1]>>]] : f \in [above -> vals]}

\* for j in range(len(node_ids)): if similarity_matrix[i][j] > th: append
RECURSIVE MembersFrom(_, _, _, _, _)
MembersFrom(docs, S, i, j, th) ==
    IF j > Len(docs) THEN <<>>
    ELSE (IF S[<<i, j>>] > th
          THEN <<[id |-> docs[j].id, similarity |-> S[<<i, j>>]]>>
          ELSE <<>>)
         \o MembersFrom(docs, S, i, j + 1, th)

MemberIds(members) == {members[k].id : k \in Indices(members)}

\* the seed test left out: every node opens a cluster
SeedVisitedNever(st, id) == FALSE

\* if node_ids[i] in visited: continue
SeedVisited(st, id) == id \in st.visited

\* visited.add(node_ids[j]) for the members other than the seed only
MarkVisitedOthers(st, center, members) ==
    st.visited \cup (MemberIds(members) \ {center})

\* visited.add(node_ids[j]) for every member appended; center is the seed
MarkVisited(st, center, members) == st.visited \cup MemberIds(members)

\* the keep test letting a cluster of one through
KeepClusterNonEmpty(members) == Len(members) >= 1

\* if len(cluster['members']) > 1: clusters.append(cluster)
KeepCluster(members) == Len(members) > 1

\* one iteration of "for i in range(len(node_ids))" with the given member test
SeedStepWith(st, docs, S, i, th) ==
    IF SeedVisited(st, docs[i].id) THEN st
    ELSE LET members == MembersFrom(docs, S, i, 1, th)
             cluster == [center |-> docs[i].id, members |-> members]
         IN  [visited  |-> MarkVisited(st, docs[i].id, members),
              clusters |-> IF KeepCluster(members) THEN Append(st.clusters, cluster)
                           ELSE st.clusters,
              opened   |-> Append(st.opened, cluster)]

\* the member test written ">=" instead of ">"
SeedStepInclusive(st, docs, S, i) == SeedStepWith(st, docs, S, i, SIM_THRESHOLD - 1)

SeedStep(st, docs, S, i) == SeedStepWith(st, docs, S, i, SIM_THRESHOLD)

PassStart == [visited |-> {}, clusters |-> <<>>, opened |-> <<>>]

RECURSIVE GreedyPass(_, _, _, _)
GreedyPass(st, docs, S, i) ==
    IF i > Len(docs) THEN st
    ELSE GreedyPass(SeedStep(st, docs, S, i), docs, S, i + 1)

\* "except Exception" around vectorization and the pass, propagating instead
VectorizeFailurePropagates(e) == [clusters |-> <<>>, raised |-> e]

\* except Exception as e: log, return []
VectorizeFailure(e) == [clusters |-> <<>>, raised |-> "none"]

\* the whole of identify_semantic_clusters, given what the library returns
identify_semantic_clusters(docs, S) ==
    IF docs = <<>> THEN [clusters |-> <<>>, raised |-> "none"]
    ELSE IF EmptyVocabulary(docs) THEN VectorizeFailure("ValueError")
    ELSE [clusters |-> GreedyPass(PassStart, docs, S, 1).clusters, raised |-> "none"]

(***************************************************************************)
(* SpecCluster: the greedy pass, one seed at a time                        *)
(***************************************************************************)
MaxDocs == 3
SimVals == {0, 30, 31}

DocSeqs ==
    UNION {[1..n -> BOOLEAN] : n \in 0..MaxDocs}

InitCluster ==
    /\ NoBuild /\ NoDepth /\ NoRest
    /\ \E t \in DocSeqs : cdocs = [i \in DOMAIN t |-> [id |-> i, terms |-> t[i]]]
    /\ cvec = "pending" /\ sim = <<>> /\ ci = 0
    /\ visited = {} /\ clusters = <<>> /\ opened = <<>> /\ cpc = "start"

\* if not content_texts: return []
ReturnEmptyCorpus ==
    /\ cpc = "start" /\ cdocs = <<>>
    /\ cpc' = "done"
    /\ UNCHANGED <<cdocs, cvec, sim, ci, visited, clusters, opened>>
    /\ UNCHANGED buildVars /\ UNCHANGED depthVars /\ UNCHANGED restVars

VectorizeFails ==
    /\ cpc = "start" /\ cdocs # <<>> /\ EmptyVocabulary(cdocs)
    /\ cvec' = "ValueError"
    /\ clusters' = VectorizeFailure("ValueError").clusters
    /\ cpc' = IF VectorizeFailure("ValueError").raised = "none" THEN "done" ELSE "raised"
    /\ UNCHANGED <<cdocs, sim, ci, visited, opened>>
    /\ UNCHANGED buildVars /\ UNCHANGED depthVars /\ UNCHANGED restVars

Vectorize ==
    /\ cpc = "start" /\ cdocs # <<>> /\ ~EmptyVocabulary(cdocs)
    /\ cvec' = "ok"
    /\ sim' \in SimMatrices(cdocs, SimVals)
    /\ ci' = 1
    /\ cpc' = "loop"
    /\ UNCHANGED <<cdocs, visited, clusters, opened>>
    /\ UNCHANGED buildVars /\ UNCHANGED depthVars /\ UNCHANGED restVars

Seed ==
    /\ cpc = "loop" /\ ci <= Len(cdocs)
    /\ LET st == SeedStep([visited |-> visited, clusters |-> clusters,
                           opened |-> opened], cdocs, sim, ci)
       IN  /\ visited' = st.visited
           /\ clusters' = st.clusters
           /\ opened' = st.opened
    /\ ci' = ci + 1
    /\ UNCHANGED <<cdocs, cvec, sim, cpc>>
    /\ UNCHANGED buildVars /\ UNCHANGED depthVars /\ UNCHANGED restVars

ReturnClusters ==
    /\ cpc = "loop" /\ ci > Len(cdocs)
    /\ cpc' = "done"
    /\ UNCHANGED <<cdocs, cvec, sim, ci, visited, clusters, opened>>
    /\ UNCHANGED buildVars /\ UNCHANGED depthVars /\ UNCHANGED restVars

NextCluster ==
    \/ ReturnEmptyCorpus
    \/ VectorizeFails
    \/ Vectorize
    \/ Seed
    \/ ReturnClusters

SpecCluster == InitCluster /\ [][NextCluster]_vars

\* the step-wise pass returns what identify_semantic_clusters computes
PassAgrees ==
    cpc = "done" => clusters = identify_semantic_clusters(cdocs, sim).clusters

DocIndex(id) == CHOOSE i \in Indices(cdocs) : cdocs[i].id = id

\* C2: in the list returned by cluster no node is a member of two different
\* clusters.
NoNodeInTwoClusters ==
    cpc = "done" =>
        \A a, b \in Indices(clusters) :
            a # b => MemberIds(clusters[a].members) \cap MemberIds(clusters[b].members) = {}

\* C3: every member's recorded similarity is the similarity between that
\* member and the cluster's center, and it is strictly greater than 0.3.
MemberSimilarityAboveThreshold ==
    \A c \in Indices(clusters) : \A m \in Indices(clusters[c].members) :
        LET mem == clusters[c].members[m]
        IN  /\ mem.similarity = sim[<<DocIndex(clusters[c].center), DocIndex(mem.id)>>]
            /\ mem.similarity > SIM_THRESHOLD

\* a returned cluster has a member other than its center while some pair of
\* documents sits exactly on the threshold
ClusterWithNeighbourReturned ==
    /\ cpc = "done"
    /\ \E c \in Indices(clusters) : \E m \in Indices(clusters[c].members) :
          clusters[c].members[m].id # clusters[c].center
    /\ \E i, j \in Indices(cdocs) : sim[<<i, j>>] = SIM_THRESHOLD

(***************************************************************************)
(* utils.clean_html                                                        *)
(***************************************************************************)
\* index of the first ">" after position i on the same line, 0 if none:
\* "." does not match a line break, so "<.*?>" never spans one
RECURSIVE TagEnd(_, _)
TagEnd(text, j) ==
    IF j > Len(text) THEN 0
    ELSE IF text[j].k = "NL" THEN 0
    ELSE IF text[j].k = ">" THEN j
    ELSE TagEnd(text, j + 1)

\* re.sub('<.*?>', '', html)
RECURSIVE StripTags(_, _)
StripTags(text, i) ==
    IF i > Len(text) THEN <<>>
    ELSE IF text[i].k = "<" /\ TagEnd(text, i + 1) # 0
         THEN StripTags(text, TagEnd(text, i + 1) + 1)
         ELSE <<text[i]>> \o StripTags(text, i + 1)

\* re.sub(r'\s+', ' ', text)
RECURSIVE CollapseSpace(_, _)
CollapseSpace(text, i) ==
    IF i > Len(text) THEN <<>>
    ELSE IF IsSpace(text[i])
         THEN (IF i > 1 /\ IsSpace(text[i - 1]) THEN <<>> ELSE <<SP>>)
              \o CollapseSpace(text, i + 1)
         ELSE <<text[i]>> \o CollapseSpace(text, i + 1)

\* str.strip()
RECURSIVE Strip(_)
Strip(text) ==
    IF text = <<>> THEN text
    ELSE IF IsSpace(Head(text)) THEN Strip(Tail(text))
    ELSE IF IsSpace(text[Len(text)]) THEN Strip(SubSeq(text, 1, Len(text) - 1))
    ELSE text

clean_html(html) == Strip(CollapseSpace(StripTags(html, 1), 1))

(***************************************************************************)
(* The graph: networkx.DiGraph as used by GraphBuilder                     *)
(*                                                                         *)
(* A node id is [pre, n]: the native id n of a post is [pre |-> "", n],    *)
(* f"page_{n}" is [pre |-> "page_", n], and so on.  Node data is a record  *)
(* whose fields are the attributes set so far (empty for a node that only  *)
(* add_edge created).                                                      *)
(***************************************************************************)
NodeId(pre, n) == [pre |-> pre, n |-> n]

NoData == [x \in {} |-> 0]

EmptyGraph == [nodes |-> <<>>, edges |-> EmptyBag]

NodeIds(g) == {g.nodes[i].id : i \in Indices(g.nodes)}

has_node(g, id) == id \in NodeIds(g)

NodeIndex(g, id) == CHOOSE i \in Indices(g.nodes) : g.nodes[i].id = id

DataOf(g, id) == g.nodes[NodeIndex(g, id)].data

\* dict.get(key, default)
Get(data, key, default) == IF key \in DOMAIN data THEN data[key] ELSE default

\* DiGraph.add_node(id, **attr): a new node goes last, an existing one has its
\* attributes updated in place
add_node(g, id, attr) ==
    IF has_node(g, id)
    THEN [g EXCEPT !.nodes[NodeIndex(g, id)].data = attr @@ @]
    ELSE [g EXCEPT !.nodes = Append(@, [id |-> id, data |-> attr])]

\* DiGraph.add_edge(u, v, type=...): missing endpoints are created without
\* attributes; an edge that exists has its attribute overwritten
\* The edges are kept as a bag so that a parallel edge, if one were ever
\* added, would be counted.
EdgesWhere(g, S) == [e \in S |-> g.edges[e]]

\* add_edge as a multigraph would do it: every call adds one more edge
add_edge_parallel(g, u, v, type) ==
    LET g1 == IF has_node(g, u) THEN g ELSE add_node(g, u, NoData)
        g2 == IF has_node(g1, v) THEN g1 ELSE add_node(g1, v, NoData)
    IN  [g2 EXCEPT !.edges = @ (+) SetToBag({[s |-> u, t |-> v, type |-> type]})]

add_edge(g, u, v, type) ==
    LET g1 == IF has_node(g, u) THEN g ELSE add_node(g, u, NoData)
        g2 == IF has_node(g1, v) THEN g1 ELSE add_node(g1, v, NoData)
        kept == {e \in BagToSet(g2.edges) : ~(e.s = u /\ e.t = v)}
    IN  [g2 EXCEPT !.edges = EdgesWhere(g2, kept)
                             (+) SetToBag({[s |-> u, t |-> v, type |-> type]})]

\* the out-degree counting internal links only
out_degree_internal_links(g, id) ==
    BagCardinality(EdgesWhere(g, {e \in BagToSet(g.edges) :
                                     e.s = id /\ e.type = "internal_link"}))

out_degree(g, id) ==
    BagCardinality(EdgesWhere(g, {e \in BagToSet(g.edges) : e.s = id}))
in_degree(g, id) ==
    BagCardinality(EdgesWhere(g, {e \in BagToSet(g.edges) : e.t = id}))

(***************************************************************************)
(* Raw items of the bundle                                                 *)
(*                                                                         *)
(* A text field is [shape, s]: "absent", "str" (plain string s), "nested"  *)
(* ({'rendered': s}), "nested_empty" ({}), or "other" (neither a string    *)
(* nor a dict, e.g. a number).  An id field is [shape, v] with shape       *)
(* "absent", "value" (v a node id) or "unhashable".  A reference field is  *)
(* [shape, refs] with shape "absent", "seq" or "noniter"; a reference is   *)
(* [k, n, s] with k "int" (n), "str" (s) or "other".                       *)
(***************************************************************************)
Absent == [shape |-> "absent", s |-> <<>>]
Str(s) == [shape |-> "str", s |-> s]
Nested(s) == [shape |-> "nested", s |-> s]
NestedEmpty == [shape |-> "nested_empty", s |-> <<>>]
OtherValue == [shape |-> "other", s |-> <<>>]

NoId == [shape |-> "absent", v |-> NodeId("", 0)]
Id(n) == [shape |-> "value", v |-> NodeId("", n)]
StrId(pre, n) == [shape |-> "value", v |-> NodeId(pre, n)]
UnhashableId == [shape |-> "unhashable", v |-> NodeId("[]", 0)]

NoRefs == [shape |-> "absent", refs |-> <<>>]
Refs(r) == [shape |-> "seq", refs |-> r]
NonIterRefs == [shape |-> "noniter", refs |-> <<>>]
IntRef(n) == [k |-> "int", n |-> n, s |-> ""]
StrRef(s) == [k |-> "str", n |-> 0, s |-> s]
OtherRef == [k |-> "other", n |-> 0, s |-> ""]

\* the extraction under a global REST mode: every field is taken to be a
\* holder, so a plain string yields nothing
RenderedHolderOnly(field) ==
    CASE field.shape = "nested" -> Str(field.s)
      [] field.shape = "other" -> field
      [] OTHER -> Str(<<>>)

\* x = item.get(field, {}); if isinstance(x, dict): x = x.get('rendered', '')
Rendered(field) ==
    CASE field.shape = "absent" -> Str(<<>>)
      [] field.shape = "nested_empty" -> Str(<<>>)
      [] field.shape = "nested" -> Str(field.s)
      [] OTHER -> field

\* post.get('categories', [])
RefsOrEmpty(field) == IF field.shape = "absent" THEN Refs(<<>>) ELSE field

\* the type fixed by the sequence the item came in, whatever the item says
TypeOrDefault(item, default) == default

\* item.get('type', default)
TypeOr(item, default) == IF item.type = "absent" THEN default ELSE item.type

\* a step of the builder gives the graph and the exception that leaves
\* build_content_graph ("none" when the step completes)
Ok(g) == [g |-> g, exc |-> "none"]
Raise(g, e) == [g |-> g, exc |-> e]

(***************************************************************************)
(* GraphBuilder.build_content_graph: node ingestion                        *)
(***************************************************************************)
\* "for x in content.get('posts', [])": the items, or the TypeError of
\* iterating something that is not iterable
ContentItems(container) ==
    CASE container.shape = "absent" -> [items |-> <<>>, exc |-> "none"]
      [] container.shape = "seq" -> [items |-> container.items, exc |-> "none"]
      [] OTHER -> [items |-> <<>>, exc |-> "TypeError"]

\* one iteration of "for post in content.get('posts', [])", with the id
\* read by post.get('id', 0) instead of post['id']
ingest_post_default_id(g, post) ==
    IF ~post.rec THEN Raise(g, "AttributeError")
    ELSE LET post_content == Rendered(post.content)
             excerpt == Rendered(post.excerpt)
         IN  IF post_content.shape = "other" \/ excerpt.shape = "other" THEN Ok(g)
             ELSE IF post.id.shape = "unhashable" THEN Ok(g)
             ELSE Ok(add_node(g, post.id.v,
                     [type |-> TypeOr(post, "post"),
                      title |-> Rendered(post.title),
                      url |-> post.link,
                      content |-> clean_html(post_content.s),
                      excerpt |-> clean_html(excerpt.s),
                      categories |-> RefsOrEmpty(post.categories),
                      tags |-> RefsOrEmpty(post.tags),
                      date |-> post.date]))

\* one iteration of "for post in content.get('posts', [])".  post.get on an
\* item that is not a dict raises AttributeError, which the handler does not
\* catch; KeyError (no 'id') and TypeError (re.sub on a non-string, an
\* unhashable node) skip the item.
ingest_post(g, post) ==
    IF ~post.rec THEN Raise(g, "AttributeError")
    ELSE LET post_content == Rendered(post.content)
             excerpt == Rendered(post.excerpt)
         IN  IF post.id.shape = "absent" THEN Ok(g)
             ELSE IF post_content.shape = "other" \/ excerpt.shape = "other" THEN Ok(g)
             ELSE IF post.id.shape = "unhashable" THEN Ok(g)
             ELSE Ok(add_node(g, post.id.v,
                     [type |-> TypeOr(post, "post"),
                      title |-> Rendered(post.title),
                      url |-> post.link,
                      content |-> clean_html(post_content.s),
                      excerpt |-> clean_html(excerpt.s),
                      categories |-> RefsOrEmpty(post.categories),
                      tags |-> RefsOrEmpty(post.tags),
                      date |-> post.date]))

\* f"page_{page['id']}"
PageNodeId(v) == NodeId("page_" \o v.pre, v.n)

\* one iteration of "for page in content.get('pages', [])"; an unhashable id
\* formats into a string like any other
ingest_page(g, page) ==
    IF ~page.rec THEN Raise(g, "AttributeError")
    ELSE LET page_content == Rendered(page.content)
         IN  IF page.id.shape = "absent" THEN Ok(g)
             ELSE IF page_content.shape = "other" THEN Ok(g)
             ELSE Ok(add_node(g, PageNodeId(page.id.v),
                     [type |-> TypeOr(page, "page"),
                      title |-> Rendered(page.title),
                      url |-> page.link,
                      content |-> clean_html(page_content.s),
                      parent |-> page.parent,
                      date |-> page.date]))

(***************************************************************************)
(* GraphBuilder.build_internal_link_edges                                  *)
(***************************************************************************)
LinkEnd(t) == t.k \in {"SP", "NL", ">", "QUOTE"}

\* last token of the match of site_url/[^"'>\s]+ that starts at token i
RECURSIVE MatchEnd(_, _)
MatchEnd(text, i) ==
    IF i = Len(text) \/ LinkEnd(text[i + 1]) THEN i ELSE MatchEnd(text, i + 1)

\* re.findall(rf'{site_url}/[^"\'>\s]+', content): the URL codes found, in
\* order; -1 is a match that runs on into the following characters
RECURSIVE FindLinks(_, _)
FindLinks(text, i) ==
    IF i > Len(text) THEN <<>>
    ELSE IF text[i].k = "U"
         THEN <<IF MatchEnd(text, i) = i THEN text[i].n ELSE -1>>
              \o FindLinks(text, MatchEnd(text, i) + 1)
         ELSE FindLinks(text, i + 1)

NO_URL == -2

UrlMatches(nodeseq, link) ==
    {i \in Indices(nodeseq) : Get(nodeseq[i].data, "url", NO_URL) = link}

\* the scan without its "break": every node with the URL gets the edge in
\* turn, which leaves the edge on the last of them as well
RECURSIVE LinkNodeLastMatch(_, _, _, _)
LinkNodeLastMatch(g, node_id, links, k) ==
    IF k > Len(links) THEN g
    ELSE LET m == UrlMatches(g.nodes, links[k])
             g1 == IF m = {} THEN g
                   ELSE add_edge(g, node_id,
                                 g.nodes[CHOOSE i \in m : \A j \in m : i >= j].id,
                                 "internal_link")
         IN  LinkNodeLastMatch(g1, node_id, links, k + 1)

\* for target_id, target_data in target_nodes_list: if url == link: ...; break
RECURSIVE LinkNode(_, _, _, _)
LinkNode(g, node_id, links, k) ==
    IF k > Len(links) THEN g
    ELSE LET m == UrlMatches(g.nodes, links[k])
             g1 == IF m = {} THEN g
                   ELSE add_edge(g, node_id,
                                 g.nodes[CHOOSE i \in m : \A j \in m : i <= j].id,
                                 "internal_link")
         IN  LinkNode(g1, node_id, links, k + 1)

RECURSIVE LinkFrom(_, _)
LinkFrom(g, i) ==
    IF i > Len(g.nodes) THEN g
    ELSE LET data == g.nodes[i].data
         IN  LinkFrom(IF "content" \in DOMAIN data
                      THEN LinkNode(g, g.nodes[i].id, FindLinks(data.content, 1), 1)
                      ELSE g,
                      i + 1)

build_internal_link_edges(g) == LinkFrom(g, 1)

(***************************************************************************)
(* GraphBuilder.build_taxonomy_edges                                       *)
(*                                                                         *)
(* A category or tag item is [k, id, name, slug, url] with k "rest" (a     *)
(* dict with 'id'), "sitemap" (a dict with 'url' only), "sitemap_badurl"   *)
(* (its 'url' is not a string), "neither" (a dict with neither key) or     *)
(* "notdict".                                                              *)
(***************************************************************************)
HASH_MOD == 1000000000

\* last path segment of a site URL: url.split('/')[-1]
SlugOfUrl(u) ==
    CASE u = 3 -> "news"
      [] u = 4 -> "seo"
      [] OTHER -> "page"

\* slug.replace('-', ' ').title()
TitleOfSlug(slug) ==
    CASE slug = "news" -> "News"
      [] slug = "seo" -> "Seo"
      [] slug = "page" -> "Page"
      [] OTHER -> slug

\* str.lower()
Lower(name) ==
    CASE name \in {"News", "NEWS", "news"} -> "news"
      [] name \in {"Seo", "SEO", "seo"} -> "seo"
      [] name \in {"Page", "page"} -> "page"
      [] OTHER -> name

\* hash(url) under the string-hash seed h of the running process
Hash(h, u) == h[u]

\* "if content.get('categories'): for cat in content['categories']": a
\* falsy value skips the loop, a truthy one is iterated
TaxonomyItemsSwallowed(container) ==
    CASE container.shape = "seq" -> [items |-> container.items, exc |-> "none"]
      [] OTHER -> [items |-> <<>>, exc |-> "none"]

TaxonomyItems(container) ==
    CASE container.shape = "seq" -> [items |-> container.items, exc |-> "none"]
      [] container.shape = "noniter_truthy" -> [items |-> <<>>, exc |-> "TypeError"]
      [] OTHER -> [items |-> <<>>, exc |-> "none"]

\* one iteration of the category (pre "cat_", type "category") or tag
\* (pre "tag_", type "tag") loop; url.split on a non-string raises
\* AttributeError, which the handler does not catch
ingest_taxonomy(g, item, pre, type, h) ==
    CASE item.k = "rest" ->
            Ok(add_node(g, NodeId(pre, item.id),
                        [type |-> type, name |-> item.name, slug |-> item.slug]))
      [] item.k = "sitemap" ->
            Ok(add_node(g, NodeId(pre, Hash(h, item.url) % HASH_MOD),
                        [type |-> type,
                         name |-> TitleOfSlug(SlugOfUrl(item.url)),
                         slug |-> SlugOfUrl(item.url),
                         url |-> item.url]))
      [] item.k = "sitemap_badurl" -> Raise(g, "AttributeError")
      [] OTHER -> Ok(g)

NameMatches(nodeseq, type, name) ==
    {i \in Indices(nodeseq) :
        /\ Get(nodeseq[i].data, "type", "None") = type
        /\ Lower(Get(nodeseq[i].data, "name", "")) = Lower(name)}

\* the lookup comparing a name reference as written, without .lower()
ResolveRefCaseSensitive(g, ref, pre, type) ==
    CASE ref.k = "int" -> [some |-> TRUE, id |-> NodeId(pre, ref.n)]
      [] ref.k = "str" ->
            LET m == {i \in Indices(g.nodes) :
                         /\ Get(g.nodes[i].data, "type", "None") = type
                         /\ Get(g.nodes[i].data, "name", "") = ref.s}
            IN  IF m = {} THEN [some |-> FALSE, id |-> NodeId("", 0)]
                ELSE [some |-> TRUE,
                      id |-> g.nodes[CHOOSE i \in m : \A j \in m : i <= j].id]
      [] OTHER -> [some |-> FALSE, id |-> NodeId("", 0)]

\* the node a reference names: f"{pre}{n}" for a number, the first node of
\* the type with that name (ignoring case) for a string, else None
ResolveRef(g, ref, pre, type) ==
    CASE ref.k = "int" -> [some |-> TRUE, id |-> NodeId(pre, ref.n)]
      [] ref.k = "str" ->
            LET m == NameMatches(g.nodes, type, ref.s)
            IN  IF m = {} THEN [some |-> FALSE, id |-> NodeId("", 0)]
                ELSE [some |-> TRUE,
                      id |-> g.nodes[CHOOSE i \in m : \A j \in m : i <= j].id]
      [] OTHER -> [some |-> FALSE, id |-> NodeId("", 0)]

\* "if cat_node_id and has_node(cat_node_id)" without the has_node test
TargetExistsUnchecked(g, target) == target.some

\* if cat_node_id and self.content_graph.has_node(cat_node_id)
TargetExists(g, target) == target.some /\ has_node(g, target.id)

\* for cat_item in categories: ... add_edge(node_id, cat_node_id, type=...)
RECURSIVE ConnectRefs(_, _, _, _, _, _, _)
ConnectRefs(g, node_id, refs, k, pre, type, edgetype) ==
    IF k > Len(refs) THEN g
    ELSE LET target == ResolveRef(g, refs[k], pre, type)
             g1 == IF refs[k].k \in {"int", "str"} /\ TargetExists(g, target)
                   THEN add_edge(g, node_id, target.id, edgetype)
                   ELSE g
         IN  ConnectRefs(g1, node_id, refs, k + 1, pre, type, edgetype)

\* the body of "for node_id, data in nodes_list" for one post node; iterating
\* a categories or tags value that is not iterable raises TypeError, which
\* the outer handler logs and re-raises
ConnectNode(g, node) ==
    LET categories == Get(node.data, "categories", Refs(<<>>))
        tags == Get(node.data, "tags", Refs(<<>>))
    IN  IF categories.shape = "noniter" THEN Raise(g, "TypeError")
        ELSE LET g1 == ConnectRefs(g, node.id, categories.refs, 1,
                                   "cat_", "category", "categorized_as")
             IN  IF tags.shape = "noniter" THEN Raise(g1, "TypeError")
                 ELSE Ok(ConnectRefs(g1, node.id, tags.refs, 1,
                                     "tag_", "tag", "tagged_as"))

\* nodes_list = list(nodes(data=True)); for node_id, data in nodes_list
RECURSIVE ConnectFrom(_, _, _)
ConnectFrom(g, nodes_list, i) ==
    IF i > Len(nodes_list) THEN Ok(g)
    ELSE IF nodes_list[i].data = NoData
            \/ Get(nodes_list[i].data, "type", "None") # "post"
         THEN ConnectFrom(g, nodes_list, i + 1)
         ELSE LET r == ConnectNode(g, nodes_list[i])
              IN  IF r.exc # "none" THEN r
                  ELSE ConnectFrom(r.g, nodes_list, i + 1)

connect_posts(g) == ConnectFrom(g, g.nodes, 1)

(***************************************************************************)
(* build_content_graph as a whole, under hash seed h                       *)
(***************************************************************************)
RECURSIVE IngestPosts(_, _, _)
IngestPosts(g, items, i) ==
    IF i > Len(items) THEN Ok(g)
    ELSE LET r == ingest_post(g, items[i])
         IN  IF r.exc # "none" THEN r ELSE IngestPosts(r.g, items, i + 1)

RECURSIVE IngestPages(_, _, _)
IngestPages(g, items, i) ==
    IF i > Len(items) THEN Ok(g)
    ELSE LET r == ingest_page(g, items[i])
         IN  IF r.exc # "none" THEN r ELSE IngestPages(r.g, items, i + 1)

RECURSIVE IngestTaxonomy(_, _, _, _, _, _)
IngestTaxonomy(g, items, i, pre, type, h) ==
    IF i > Len(items) THEN Ok(g)
    ELSE LET r == ingest_taxonomy(g, items[i], pre, type, h)
         IN  IF r.exc # "none" THEN r
             ELSE IngestTaxonomy(r.g, items, i + 1, pre, type, h)

\* a phase over a container: the TypeError of iterating it, or the loop
PostsPhase(g, b) ==
    IF ContentItems(b.posts).exc # "none" THEN Raise(g, ContentItems(b.posts).exc)
    ELSE IngestPosts(g, ContentItems(b.posts).items, 1)

PagesPhase(g, b) ==
    IF ContentItems(b.pages).exc # "none" THEN Raise(g, ContentItems(b.pages).exc)
    ELSE IngestPages(g, ContentItems(b.pages).items, 1)

CategoriesPhase(g, b, h) ==
    IF TaxonomyItems(b.categories).exc # "none"
    THEN Raise(g, TaxonomyItems(b.categories).exc)
    ELSE IngestTaxonomy(g, TaxonomyItems(b.categories).items, 1, "cat_", "category", h)

\* the tag loop followed by the link scan, which then sees taxonomy nodes
TagsPhaseThenLinks(g, b, h) ==
    IF TaxonomyItems(b.tags).exc # "none" THEN Raise(g, TaxonomyItems(b.tags).exc)
    ELSE LET r == IngestTaxonomy(g, TaxonomyItems(b.tags).items, 1, "tag_", "tag", h)
         IN  IF r.exc # "none" THEN r ELSE Ok(build_internal_link_edges(r.g))

TagsPhase(g, b, h) ==
    IF TaxonomyItems(b.tags).exc # "none" THEN Raise(g, TaxonomyItems(b.tags).exc)
    ELSE IngestTaxonomy(g, TaxonomyItems(b.tags).items, 1, "tag_", "tag", h)

build_content_graph(g, b, h) ==
    LET r1 == PostsPhase(g, b)
        r2 == IF r1.exc # "none" THEN r1 ELSE PagesPhase(r1.g, b)
        r3 == IF r2.exc # "none" THEN r2 ELSE Ok(build_internal_link_edges(r2.g))
        r4 == IF r3.exc # "none" THEN r3 ELSE CategoriesPhase(r3.g, b, h)
        r5 == IF r4.exc # "none" THEN r4 ELSE TagsPhase(r4.g, b, h)
    IN  IF r5.exc # "none" THEN r5 ELSE connect_posts(r5.g)

(***************************************************************************)
(* ContentAnalyzer.analyze_content_depth                                   *)
(***************************************************************************)
HUB_MIN_LINKS == 5
HUB_MIN_DEPTH == 7
ORPHAN_MAX_LINKS == 2

IsContent(data) == Get(data, "type", "None") \in {"post", "page"}

\* tokens the vectorizer keeps: two or more word characters, no stop word
HasTerms(text) ==
    \E i \in Indices(text) :
        text[i].k \notin {"<", ">", "SP", "NL", "QUOTE", "-", "##", "###", "the"}

\* one entry of content_scores; node is the key the entry is stored under
ScoreEntry(g, node) ==
    [node |-> node.id,
     title |-> Get(node.data, "title", Str(<<>>)),
     url |-> Get(node.data, "url", 0),
     depth_score |-> calculate_content_depth(Get(node.data, "content", <<>>)),
     word_count |-> WordCount(Get(node.data, "content", <<>>)),
     internal_links |-> out_degree(g, node.id),
     backlinks |-> in_degree(g, node.id)]

RECURSIVE ContentScores(_, _)
ContentScores(g, i) ==
    IF i > Len(g.nodes) THEN <<>>
    ELSE (IF IsContent(g.nodes[i].data) THEN <<ScoreEntry(g, g.nodes[i])>> ELSE <<>>)
         \o ContentScores(g, i + 1)

\* the hub test with ">=" on the link count
IsHubInclusive(score_data) ==
    score_data.internal_links >= HUB_MIN_LINKS /\ score_data.depth_score > HUB_MIN_DEPTH

IsHub(score_data) ==
    score_data.internal_links > HUB_MIN_LINKS /\ score_data.depth_score > HUB_MIN_DEPTH

\* the orphan test reading 'backlinks' where it should read 'internal_links'
IsOrphanByBacklinks(score_data) ==
    score_data.backlinks = 0 /\ score_data.backlinks < ORPHAN_MAX_LINKS

IsOrphan(score_data) ==
    score_data.backlinks = 0 /\ score_data.internal_links < ORPHAN_MAX_LINKS

\* content_texts / node_ids of identify_semantic_clusters
RECURSIVE CollectDocs(_, _)
CollectDocs(g, i) ==
    IF i > Len(g.nodes) THEN <<>>
    ELSE (IF IsContent(g.nodes[i].data) /\ Get(g.nodes[i].data, "content", <<>>) # <<>>
          THEN <<[id |-> g.nodes[i].id, terms |-> HasTerms(g.nodes[i].data.content)]>>
          ELSE <<>>)
         \o CollectDocs(g, i + 1)

\* the report, given the similarity matrix S the library computes; raised is
\* the exception that leaves analyze_content_depth
analyze_content_depth(g, S) ==
    LET scores == ContentScores(g, 1)
        c == identify_semantic_clusters(CollectDocs(g, 1), S)
    IN  [content_scores |-> scores,
         hub_potential |-> SelectSeq(scores, IsHub),
         orphan_content |-> SelectSeq(scores, IsOrphan),
         semantic_clusters |-> c.clusters,
         raised |-> c.raised]

\* analyze_content_depth writing each depth score back onto its node
GraphWithDepthScores(g) ==
    [g EXCEPT !.nodes =
        [i \in Indices(g.nodes) |->
            IF IsContent(g.nodes[i].data)
            THEN [g.nodes[i] EXCEPT !.data =
                     [depth_score |->
                         calculate_content_depth(Get(g.nodes[i].data, "content", <<>>))]
                     @@ @]
            ELSE g.nodes[i]]]

\* the graph after analyze_content_depth and identify_semantic_clusters: both
\* only iterate nodes(data=True) and read out_degree / in_degree
GraphAfterAnalyze(g) == g

(***************************************************************************)
(* Bundles                                                                 *)
(***************************************************************************)
MaxPosts == 2
MaxPages == 1
MaxCats == 1
MaxTags == 1

SeqsUpTo(S, n) == UNION {[1..k -> S] : k \in 0..n}

Items(seq) == [shape |-> "seq", items |-> seq]
AbsentItems == [shape |-> "absent", items |-> <<>>]
NonIterTruthy == [shape |-> "noniter_truthy", items |-> <<>>]
NonIterFalsy == [shape |-> "noniter_falsy", items |-> <<>>]

TxtLinkB == <<W(3), SP, U(2)>>
TxtHtml == <<LT, Ch("h2"), GT, W(5), LT, Ch("a"), SP, Ch("href="), QUOTE, U(1), QUOTE,
             GT, NL, W(1), SP, U(9)>>
TxtStop == <<Ch("the")>>

PostRec(id, content, link, categories, tags) ==
    [rec |-> TRUE, id |-> id, title |-> Nested(<<W(1)>>), content |-> content,
     excerpt |-> Absent, type |-> "absent", link |-> link,
     categories |-> categories, tags |-> tags, date |-> "2024"]

PostA == PostRec(Id(1), Str(TxtLinkB), 1, Refs(<<IntRef(1)>>), Refs(<<StrRef("SEO")>>))
PostB == PostRec(Id(2), Nested(TxtHtml), 2, Refs(<<IntRef(9), StrRef("NEWS")>>), NoRefs)
PostNoId == PostRec(NoId, Str(<<U(1)>>), 2, Refs(<<IntRef(1)>>), NoRefs)
PostBadRefs == PostRec(Id(3), Str(TxtStop), 0, NonIterRefs, NoRefs)
PostBadContent == PostRec(Id(3), OtherValue, 1, NoRefs, NoRefs)
PostUnhashable == PostRec(UnhashableId, Absent, 1, NoRefs, NoRefs)
PostNotRecord == [PostA EXCEPT !.rec = FALSE]

PostItems == {PostA, PostB, PostNoId, PostBadRefs, PostBadContent, PostUnhashable,
              PostNotRecord}

PageRec(id, content, link) ==
    [rec |-> TRUE, id |-> id, title |-> Str(<<W(2)>>), content |-> content,
     type |-> "absent", link |-> link, parent |-> 0, date |-> "2024"]

PageOk == PageRec(Id(1), Str(<<U(1), SP, U(2)>>), 5)
PageNoId == PageRec(NoId, Str(<<U(2)>>), 1)
PageNotRecord == [PageOk EXCEPT !.rec = FALSE]

PageItems == {PageOk, PageNoId, PageNotRecord}

TaxRest(id, name) == [k |-> "rest", id |-> id, name |-> name, slug |-> Lower(name), url |-> 0]
TaxSitemap(u) == [k |-> "sitemap", id |-> 0, name |-> "", slug |-> "", url |-> u]
TaxBadUrl == [k |-> "sitemap_badurl", id |-> 0, name |-> "", slug |-> "", url |-> 0]
TaxNotDict == [k |-> "notdict", id |-> 0, name |-> "", slug |-> "", url |-> 0]
TaxNeither == [k |-> "neither", id |-> 0, name |-> "", slug |-> "", url |-> 0]

CatItems == {TaxRest(1, "News"), TaxSitemap(3), TaxBadUrl, TaxNotDict}
TagItems == {TaxRest(1, "seo"), TaxNeither}

Urls == {3, 4}
HashSeeds == {[u \in Urls |-> 100 + u], [u \in Urls |-> HASH_MOD + 1]}

\* bundles whose four containers are sequences
SequenceBundles ==
    [posts : {Items(q) : q \in SeqsUpTo(PostItems, MaxPosts)},
     pages : {Items(q) : q \in SeqsUpTo(PageItems, MaxPages)},
     categories : {Items(q) : q \in SeqsUpTo(CatItems, MaxCats)},
     tags : {Items(q) : q \in SeqsUpTo(TagItems, MaxTags)}]

\* bundles with a container that is absent or not iterable
OddContainers == {AbsentItems, NonIterTruthy, NonIterFalsy}

ContainerBundles ==
    [posts : {Items(<<PostA>>)}, pages : {Items(<<>>)},
     categories : OddContainers \cup {Items(<<TaxRest(1, "News")>>)},
     tags : OddContainers \cup {Items(<<TaxRest(1, "seo")>>)}]
    \cup [posts : OddContainers, pages : {Items(<<PageOk>>)},
          categories : {Items(<<>>)}, tags : {Items(<<>>)}]
    \cup [posts : {Items(<<PostA>>)}, pages : OddContainers,
          categories : {Items(<<>>)}, tags : {Items(<<>>)}]

\* The two-post site of the end-to-end scenario.  A has 200 words and links
\* to B's URL, either as an anchor (the form a link has in rendered HTML) or
\* with the URL standing in the text; B has 2200 words, four h2 headings and
\* an image; both are filed under category 1, "News".
ScenLinkForms == {"anchor", "text"}

ScenBodyA(form) ==
    IF form = "anchor"
    THEN <<W(199), SP, LT, Ch("a"), SP, Ch("href="), QUOTE, U(2), QUOTE, GT, W(1),
           LT, Ch("/a"), GT>>
    ELSE <<W(199), SP, U(2)>>

ScenBodyB ==
    Rep(<<LT, Ch("h2"), GT, W(1), LT, Ch("/h2"), GT, SP>>, 4)
    \o <<LT, Ch("img"), SP, Ch("src="), GT, SP, W(2196)>>

ScenA(form) == PostRec(Id(1), Nested(ScenBodyA(form)), 1, Refs(<<IntRef(1)>>), NoRefs)
ScenB == PostRec(Id(2), Nested(ScenBodyB), 2, Refs(<<IntRef(1)>>), NoRefs)

ScenarioBundles ==
    [posts : {Items(<<ScenA(form), ScenB>>) : form \in ScenLinkForms},
     pages : {Items(<<>>)},
     categories : {Items(<<TaxRest(1, "News")>>)},
     tags : {Items(<<>>)}]

\* items with a 'type' of their own, nodes that share a URL, and a post that
\* repeats a URL and its taxonomy references
PostTypedPage == [PostB EXCEPT !.id = Id(4), !.type = "page"]
PostCustomType == [PostA EXCEPT !.id = Id(5), !.type = "product"]
PostARetyped == [PostA EXCEPT !.type = "page"]
PostB2 == [PostB EXCEPT !.id = Id(6)]
PostRepeat ==
    PostRec(Id(1), Str(<<U(2), SP, W(2), SP, U(2)>>), 1,
            Refs(<<IntRef(1), IntRef(1), StrRef("news")>>),
            Refs(<<IntRef(1), StrRef("SEO"), StrRef("seo")>>))

PageTypedPost == [PageOk EXCEPT !.id = Id(2), !.type = "post"]
PageSameUrl == PageRec(Id(3), Str(<<U(2)>>), 2)

SpecialPostSeqs ==
    {<<PostRepeat, PostB>>, <<PostA, PostB2, PostB>>, <<PostB, PostB2, PostA>>,
     <<PostTypedPage, PostA>>, <<PostCustomType, PostB>>, <<PostA, PostARetyped>>}

SpecialBundles ==
    [posts : {Items(q) : q \in SpecialPostSeqs},
     pages : {Items(<<>>), Items(<<PageSameUrl>>), Items(<<PageTypedPost>>)},
     categories : {Items(<<TaxRest(1, "News")>>)},
     tags : {Items(<<TaxRest(1, "seo")>>)}]

\* a post whose body links to the URL of a category found in the sitemap
PostLinkCat == PostRec(Id(7), Str(<<U(3)>>), 7, NoRefs, NoRefs)

LinkedTaxonomyBundles ==
    [posts : {Items(<<PostLinkCat>>), Items(<<PostLinkCat, PostA, PostB>>)},
     pages : {Items(<<>>), Items(<<PageOk>>)},
     categories : {Items(<<TaxSitemap(3)>>)},
     tags : {Items(<<>>), Items(<<TaxSitemap(4)>>)}]

Bundles ==
    SequenceBundles \cup ContainerBundles \cup ScenarioBundles \cup SpecialBundles
        \cup LinkedTaxonomyBundles

(***************************************************************************)
(* Spec: one build_content_graph call on a fresh GraphBuilder, phase by    *)
(* phase, followed by analyze_content_depth on the graph it returns        *)
(***************************************************************************)
AnalyzeSimVals == {0, 31}

NoReport == <<>>

graph == [nodes |-> nodes, edges |-> edges]

Init ==
    /\ NoDepth /\ NoRest /\ NoCluster
    /\ bundle \in Bundles
    /\ nodes = <<>> /\ edges = EmptyBag
    /\ pc = "posts"
    /\ hashseed = {}
    /\ exc = "none"
    /\ report = NoReport
    /\ calls = 1 /\ built = <<>>

\* the phase gave r: go on to the next phase, or leave with the exception
Advance(r, next) ==
    /\ nodes' = r.g.nodes
    /\ edges' = r.g.edges
    /\ exc' = r.exc
    /\ pc' = IF r.exc = "none" THEN next ELSE "raised"

AddPosts ==
    /\ pc = "posts"
    /\ Advance(PostsPhase(graph, bundle), "pages")
    /\ UNCHANGED <<bundle, hashseed, report>>
    /\ UNCHANGED runVars /\ UNCHANGED depthVars /\ UNCHANGED restVars /\ UNCHANGED clusterVars

AddPages ==
    /\ pc = "pages"
    /\ Advance(PagesPhase(graph, bundle), "links")
    /\ UNCHANGED <<bundle, hashseed, report>>
    /\ UNCHANGED runVars /\ UNCHANGED depthVars /\ UNCHANGED restVars /\ UNCHANGED clusterVars

BuildInternalLinkEdges ==
    /\ pc = "links"
    /\ Advance(Ok(build_internal_link_edges(graph)), "categories")
    /\ UNCHANGED <<bundle, hashseed, report>>
    /\ UNCHANGED runVars /\ UNCHANGED depthVars /\ UNCHANGED restVars /\ UNCHANGED clusterVars

UsesHash(container) ==
    \E i \in Indices(TaxonomyItems(container).items) :
        TaxonomyItems(container).items[i].k = "sitemap"

\* the seed is fixed when the process starts; it is drawn here at first use
SeedChoices(container) ==
    IF hashseed # {} THEN hashseed
    ELSE IF UsesHash(container) THEN HashSeeds
    ELSE {CHOOSE h \in HashSeeds : TRUE}

AddCategories ==
    /\ pc = "categories"
    /\ \E h \in SeedChoices(bundle.categories) :
          /\ Advance(CategoriesPhase(graph, bundle, h), "tags")
          /\ hashseed' = IF UsesHash(bundle.categories) THEN {h} ELSE hashseed
    /\ UNCHANGED <<bundle, report>>
    /\ UNCHANGED runVars /\ UNCHANGED depthVars /\ UNCHANGED restVars /\ UNCHANGED clusterVars

AddTags ==
    /\ pc = "tags"
    /\ \E h \in SeedChoices(bundle.tags) :
          /\ Advance(TagsPhase(graph, bundle, h), "connect")
          /\ hashseed' = IF UsesHash(bundle.tags) THEN {h} ELSE hashseed
    /\ UNCHANGED <<bundle, report>>
    /\ UNCHANGED runVars /\ UNCHANGED depthVars /\ UNCHANGED restVars /\ UNCHANGED clusterVars

ConnectPosts ==
    /\ pc = "connect"
    /\ Advance(connect_posts(graph), "done")
    /\ UNCHANGED <<bundle, hashseed, report>>
    /\ UNCHANGED runVars /\ UNCHANGED depthVars /\ UNCHANGED restVars /\ UNCHANGED clusterVars

Analyze ==
    /\ pc = "done"
    /\ \E S \in SimMatrices(CollectDocs(graph, 1), AnalyzeSimVals) :
          LET r == analyze_content_depth(graph, S)
          IN  /\ report' = IF r.raised = "none" THEN r ELSE NoReport
              /\ pc' = IF r.raised = "none" THEN "analyzed" ELSE "analyze_raised"
    /\ nodes' = GraphAfterAnalyze(graph).nodes
    /\ edges' = GraphAfterAnalyze(graph).edges
    /\ UNCHANGED <<bundle, hashseed, exc>>
    /\ UNCHANGED runVars /\ UNCHANGED depthVars /\ UNCHANGED restVars /\ UNCHANGED clusterVars

Next ==
    \/ AddPosts
    \/ AddPages
    \/ BuildInternalLinkEdges
    \/ AddCategories
    \/ AddTags
    \/ ConnectPosts
    \/ Analyze

Spec == Init /\ [][Next]_vars

(***************************************************************************)
(* Properties of build_content_graph (Spec)                                *)
(***************************************************************************)
Returned == pc \in {"done", "analyzed", "analyze_raised"}
Finished == Returned \/ pc = "raised"

\* the seed the process hashes with
SeedInUse == IF hashseed = {} THEN CHOOSE h \in HashSeeds : TRUE
             ELSE CHOOSE h \in hashseed : TRUE

Outcome == [g |-> graph, exc |-> exc]

Ingested(id) == has_node(graph, id) /\ DataOf(graph, id) # NoData

EdgesFrom(id, type) == {e \in BagToSet(edges) : e.s = id /\ e.type = type}

\* no node of the type answers the reference
Dangling(ref, pre, type) ==
    CASE ref.k = "int" -> ~has_node(graph, NodeId(pre, ref.n))
      [] ref.k = "str" -> NameMatches(nodes, type, ref.s) = {}
      [] OTHER -> TRUE

\* every container is a sequence of well-shaped items: the only anomalies
\* left are references and URLs that name nothing
OnlyDanglingAnomalies(b) ==
    /\ \A f \in {"posts", "pages", "categories", "tags"} : b[f].shape \in {"seq", "absent"}
    /\ \A i \in Indices(b.posts.items) :
          LET x == b.posts.items[i]
          IN  /\ x.rec /\ x.id.shape = "value"
              /\ x.content.shape # "other" /\ x.excerpt.shape # "other"
              /\ x.categories.shape # "noniter" /\ x.tags.shape # "noniter"
    /\ \A i \in Indices(b.pages.items) :
          LET x == b.pages.items[i]
          IN  x.rec /\ x.id.shape = "value" /\ x.content.shape # "other"
    /\ \A i \in Indices(b.categories.items) : b.categories.items[i].k \in {"rest", "sitemap"}
    /\ \A i \in Indices(b.tags.items) : b.tags.items[i].k \in {"rest", "sitemap"}

\* C1: every edge joins two nodes that node ingestion created; a category or
\* tag reference or an internal URL that matches no node adds no edge and
\* creates no node, and the build completes without an exception with the
\* referring post node present and no CategorizedAs edge from it.
DanglingReferencesDropped ==
    /\ \A e \in BagToSet(edges) : Ingested(e.s) /\ Ingested(e.t)
    /\ \A i \in Indices(nodes) : nodes[i].data # NoData
    /\ (Finished /\ OnlyDanglingAnomalies(bundle)) =>
          /\ exc = "none"
          /\ \A i \in Indices(bundle.posts.items) :
                has_node(graph, bundle.posts.items[i].id.v)
    /\ Returned =>
          \A i \in Indices(nodes) :
              LET refs == Get(nodes[i].data, "categories", Refs(<<>>)).refs
              IN  (\A k \in Indices(refs) : Dangling(refs[k], "cat_", "category"))
                      => EdgesFrom(nodes[i].id, "categorized_as") = {}

\* post 2, whose category id 9 names no node, is in the returned graph next
\* to category 1, linked to by post 1 and without a CategorizedAs edge
DanglingCategoryBuilt ==
    /\ pc = "done"
    /\ has_node(graph, NodeId("", 2))
    /\ has_node(graph, NodeId("cat_", 1))
    /\ ~has_node(graph, NodeId("cat_", 9))
    /\ \E k \in Indices(DataOf(graph, NodeId("", 2)).categories.refs) :
          DataOf(graph, NodeId("", 2)).categories.refs[k] = IntRef(9)
    /\ EdgesFrom(NodeId("", 1), "internal_link") # {}
    /\ EdgesFrom(NodeId("", 2), "internal_link") = {}

RemoveAt(seq, k) == SubSeq(seq, 1, k - 1) \o SubSeq(seq, k + 1, Len(seq))

WithoutItem(b, field, k) == [b EXCEPT ![field].items = RemoveAt(@, k)]

LacksId(item) == item.rec /\ item.id.shape = "absent"

\* C7: a post or page item without its native identifier is skipped: it adds
\* no node and no edge, the other items are still processed in order, and the
\* outcome is that of building the same bundle with the item removed.
ItemWithoutIdSkipped ==
    Finished =>
        \A field \in {"posts", "pages"} : \A k \in Indices(bundle[field].items) :
            LacksId(bundle[field].items[k]) =>
                Outcome = build_content_graph(EmptyGraph, WithoutItem(bundle, field, k),
                                              SeedInUse)

\* a post without id came first, post 1 after it was ingested and connected
ItemAfterSkippedOneBuilt ==
    /\ pc = "done"
    /\ bundle.posts.items = <<PostNoId, PostA>>
    /\ bundle.pages.items = <<PageNoId>>
    /\ has_node(graph, NodeId("", 1))
    /\ EdgesFrom(NodeId("", 1), "categorized_as") # {}

AllContainersAreSequences(b) ==
    \A f \in {"posts", "pages", "categories", "tags"} : b[f].shape = "seq"

\* C8: no single malformed item (a post, page, category or tag item of the
\* wrong shape, an item that is not a record, a post whose category or tag
\* field is not a sequence) makes build raise.
MalformedItemNeverAborts ==
    AllContainersAreSequences(bundle) => pc # "raised"

TaxonomyCorrupt(b, shapes) == b.categories.shape \in shapes \/ b.tags.shape \in shapes

\* C9 as stated: when the categories or tags field is present but not
\* iterable, the exception propagates and no graph is returned.
CorruptTaxonomyContainerPropagates ==
    TaxonomyCorrupt(bundle, {"noniter_truthy", "noniter_falsy"}) => ~Returned

AsAbsent(container) ==
    IF container.shape = "noniter_falsy" THEN AbsentItems ELSE container

\* C9 amended: a categories or tags field holding a truthy value that is not
\* iterable makes build raise, and no graph is returned; a falsy one (None,
\* 0) is skipped like an absent field.
TruthyCorruptTaxonomyContainerPropagates ==
    /\ TaxonomyCorrupt(bundle, {"noniter_truthy"}) =>
          /\ ~Returned /\ pc # "connect"
          /\ pc = "raised" => exc # "none"
    /\ (Finished /\ TaxonomyCorrupt(bundle, {"noniter_falsy"})) =>
          Outcome = build_content_graph(EmptyGraph,
                        [bundle EXCEPT !.categories = AsAbsent(@), !.tags = AsAbsent(@)],
                        SeedInUse)

\* the tags container is a number: the categories were ingested, then the
\* TypeError left build
CorruptTagsContainerRaised ==
    /\ pc = "raised" /\ exc = "TypeError"
    /\ bundle.tags = NonIterTruthy
    /\ has_node(graph, NodeId("cat_", 1))

(***************************************************************************)
(* SpecAnalyze: analyze_content_depth on a drawn graph                     *)
(***************************************************************************)
MaxTaxNodes == 6

DeepText == ComposeText([words |-> 2001, h2tag |-> 4, md2 |-> 0, h3tag |-> 0, md3 |-> 0,
                         img |-> "img", lst |-> "ul", sch |-> "none"])
DeeperText == ComposeText([words |-> 2001, h2tag |-> 4, md2 |-> 0, h3tag |-> 6, md3 |-> 0,
                           img |-> "img", lst |-> "ul", sch |-> "none"])

AnalyzeTexts == {<<>>, TxtStop, DeepText, DeeperText}

\* a post, a page and MaxTaxNodes categories
AnalyzeNodes(x1, x2) ==
    <<[id |-> NodeId("", 1),
       data |-> [type |-> "post", title |-> Str(<<W(1)>>), url |-> 1, content |-> x1,
                 excerpt |-> <<>>, categories |-> Refs(<<>>), tags |-> Refs(<<>>),
                 date |-> "2024"]],
      [id |-> NodeId("page_", 1),
       data |-> [type |-> "page", title |-> Str(<<W(2)>>), url |-> 2, content |-> x2,
                 parent |-> 0, date |-> "2024"]]>>
    \o [i \in 1..MaxTaxNodes |->
          [id |-> NodeId("cat_", i),
           data |-> [type |-> "category", name |-> "News", slug |-> "news"]]]

\* the post links to the first k1 categories, past those to the page and
\* then to itself; the page links back (back) and to k2 categories
AnalyzeEdges(k1, k2, back) ==
    {[s |-> NodeId("", 1), t |-> NodeId("cat_", j), type |-> "categorized_as"] :
        j \in 1..Min(k1, MaxTaxNodes)}
    \cup {[s |-> NodeId("", 1), t |-> NodeId("page_", 1), type |-> "internal_link"] :
            j \in 1..Min(k1 - MaxTaxNodes, 1)}
    \cup {[s |-> NodeId("", 1), t |-> NodeId("", 1), type |-> "internal_link"] :
            j \in 1..Min(k1 - MaxTaxNodes - 1, 1)}
    \cup {[s |-> NodeId("page_", 1), t |-> NodeId("", 1), type |-> "internal_link"] :
            j \in 1..back}
    \cup {[s |-> NodeId("page_", 1), t |-> NodeId("cat_", j), type |-> "internal_link"] :
            j \in 1..k2}

InitAnalyze ==
    /\ NoDepth /\ NoRest /\ NoCluster
    /\ bundle = <<>> /\ hashseed = {} /\ exc = "none" /\ report = NoReport
    /\ pc = "done"
    /\ calls = 1 /\ built = <<>>
    /\ \E x1, x2 \in AnalyzeTexts : nodes = AnalyzeNodes(x1, x2)
    /\ \E k1 \in 0..(MaxTaxNodes + 2), k2 \in 0..2, back \in 0..1 :
          edges = SetToBag(AnalyzeEdges(k1, k2, back))

NextAnalyze == Analyze

SpecAnalyze == InitAnalyze /\ [][NextAnalyze]_vars

EntryNodes(entries) == {entries[i].node : i \in Indices(entries)}

\* C4: no content node is placed in both the hub-candidate list and the
\* orphan list produced by analyze.
HubAndOrphanDisjoint ==
    pc = "analyzed" =>
        EntryNodes(report.hub_potential) \cap EntryNodes(report.orphan_content) = {}

\* analyze listed a hub candidate without backlinks and an orphan
HubAndOrphanListed ==
    /\ pc = "analyzed"
    /\ \E i \in Indices(report.hub_potential) : report.hub_potential[i].backlinks = 0
    /\ report.orphan_content # <<>>

DegenerateCorpus(docs) == docs = <<>> \/ Len(docs) = 1 \/ EmptyVocabulary(docs)

ContentNodeIds == {nodes[i].id : i \in {j \in Indices(nodes) : IsContent(nodes[j].data)}}

\* C10: cluster never raises on a degenerate corpus: with no content node
\* carrying text, with exactly one document, and when vectorization fails on
\* an empty vocabulary, it returns the empty list and analyze still returns
\* the content scores, the hub list and the orphan list.
DegenerateCorpusYieldsNoClusters ==
    /\ pc # "analyze_raised"
    /\ (pc = "analyzed" /\ DegenerateCorpus(CollectDocs(graph, 1))) =>
          /\ report.semantic_clusters = <<>>
          /\ EntryNodes(report.content_scores) = ContentNodeIds
          /\ EntryNodes(report.hub_potential) \subseteq ContentNodeIds
          /\ EntryNodes(report.orphan_content) \subseteq ContentNodeIds

\* vectorization failed on two stop-word texts and analyze returned scores
EmptyVocabularyAnalyzed ==
    /\ pc = "analyzed"
    /\ Len(CollectDocs(graph, 1)) = 2
    /\ EmptyVocabulary(CollectDocs(graph, 1))
    /\ Len(report.content_scores) = 2
    /\ report.orphan_content # <<>>

(***************************************************************************)
(* The end-to-end scenario (Spec)                                          *)
(***************************************************************************)
ScenIdA == NodeId("", 1)
ScenIdB == NodeId("", 2)
ScenIdCat == NodeId("cat_", 1)

ScenarioEdges ==
    SetToBag({[s |-> ScenIdA, t |-> ScenIdB, type |-> "internal_link"],
              [s |-> ScenIdA, t |-> ScenIdCat, type |-> "categorized_as"],
              [s |-> ScenIdB, t |-> ScenIdCat, type |-> "categorized_as"]})

Listed(list, id) == \E i \in Indices(list) : list[i].node = id

DepthScored(id, score) ==
    \E i \in Indices(report.content_scores) :
        /\ report.content_scores[i].node = id
        /\ report.content_scores[i].depth_score = score

\* C11: in the end-to-end scenario build returns the three nodes A, B, cat1
\* with exactly the edges A->B (internal link), A->cat1 and B->cat1, and
\* analyze lists B as no hub and neither A nor B as an orphan.
ScenarioGraphAndClassification ==
    bundle \in ScenarioBundles =>
        /\ Returned =>
              /\ Len(nodes) = 3
              /\ NodeIds(graph) = {ScenIdA, ScenIdB, ScenIdCat}
              /\ edges = ScenarioEdges
        /\ pc = "analyzed" =>
              /\ ~Listed(report.hub_potential, ScenIdB)
              /\ ~Listed(report.orphan_content, ScenIdA)
              /\ ~Listed(report.orphan_content, ScenIdB)

\* C12: in the end-to-end scenario analyze scores A at 0.0 and B at 0.6
\* (0.3 for the words, 0.2 for the four h2 headings, 0.1 for the image).
ScenarioDepthScores ==
    (bundle \in ScenarioBundles /\ pc = "analyzed") =>
        /\ DepthScored(ScenIdA, 0)
        /\ DepthScored(ScenIdB, 6)

(***************************************************************************)
(* SpecRebuild: build_content_graph called more than once, on the same     *)
(* GraphBuilder, on a new GraphBuilder of the same process, or in a new    *)
(* run of the program                                                      *)
(***************************************************************************)
MaxBuilds == 2                  \* build_content_graph calls in a behaviour

RebuildBundles ==
    [posts : {Items(<<PostA>>), Items(<<PostB>>), Items(<<PostA, PostB>>),
              Items(<<PostLinkCat>>)},
     pages : {Items(<<>>)},
     categories : {Items(<<TaxRest(1, "News")>>), Items(<<TaxSitemap(3)>>)},
     tags : {Items(<<>>), Items(<<TaxSitemap(4)>>)}]

InitRebuild ==
    /\ NoDepth /\ NoRest /\ NoCluster
    /\ bundle \in RebuildBundles
    /\ nodes = <<>> /\ edges = EmptyBag
    /\ pc = "posts"
    /\ hashseed = {}
    /\ exc = "none"
    /\ report = NoReport
    /\ calls = 1 /\ built = <<>>

\* the call that just returned, as the caller saw it
Call == [bundle |-> bundle, g |-> graph, calls |-> calls, seed |-> hashseed]

\* the caller hands the next bundle to a builder
StartBuild ==
    /\ pc = "done"
    /\ Len(built) + 1 < MaxBuilds
    /\ built' = Append(built, Call)
    /\ bundle' \in RebuildBundles
    /\ pc' = "posts"
    /\ UNCHANGED <<exc, report>>
    /\ UNCHANGED depthVars /\ UNCHANGED restVars /\ UNCHANGED clusterVars

\* build_content_graph called again on the same GraphBuilder: content_graph
\* is the DiGraph made in __init__, with whatever it holds
BuildAgain ==
    /\ StartBuild
    /\ calls' = calls + 1
    /\ UNCHANGED <<nodes, edges, hashseed>>

\* GraphBuilder(...) constructed anew in the same process
NewBuilder ==
    /\ StartBuild
    /\ calls' = 1
    /\ nodes' = <<>> /\ edges' = EmptyBag
    /\ UNCHANGED hashseed

\* the program run again: a new process, with its own string-hash seed, and
\* a new GraphBuilder
NewRun ==
    /\ StartBuild
    /\ calls' = 1
    /\ nodes' = <<>> /\ edges' = EmptyBag
    /\ hashseed' = {}

NextRebuild ==
    \/ AddPosts
    \/ AddPages
    \/ BuildInternalLinkEdges
    \/ AddCategories
    \/ AddTags
    \/ ConnectPosts
    \/ BuildAgain
    \/ NewBuilder
    \/ NewRun

SpecRebuild == InitRebuild /\ [][NextRebuild]_vars

TaxonomyNodeIds(g) == {id \in NodeIds(g) : id.pre \in {"cat_", "tag_"}}

\* C13: the id synthesized for a sitemap-sourced category or tag depends only
\* on its URL, so two builds of the same bundle, each on a new builder, give
\* the same taxonomy node ids, in the same run or in different runs.
SameUrlSameTaxonomyId ==
    (pc = "done" /\ calls = 1) =>
        \A k \in Indices(built) :
            (built[k].bundle = bundle /\ built[k].calls = 1) =>
                TaxonomyNodeIds(built[k].g) = TaxonomyNodeIds(graph)

\* C18: every build_content_graph call returns the graph of the bundle it
\* was given and nothing else, whatever the builder built before.
EveryBuildFromScratch ==
    pc = "done" => graph = build_content_graph(EmptyGraph, bundle, SeedInUse).g

(***************************************************************************)
(* Node kinds (Spec)                                                       *)
(***************************************************************************)
ItemsOf(container) == IF container.shape = "seq" THEN container.items ELSE <<>>

\* the item adds or updates a node
CreatesPost(post) == ingest_post(EmptyGraph, post).g.nodes # <<>>
CreatesPage(page) == ingest_page(EmptyGraph, page).g.nodes # <<>>

\* an item ingested after posts[i] resolves to the same node id
PostIdReused(i) ==
    \/ \E j \in Indices(ItemsOf(bundle.posts)) :
          /\ j > i
          /\ CreatesPost(ItemsOf(bundle.posts)[j])
          /\ ItemsOf(bundle.posts)[j].id.v = ItemsOf(bundle.posts)[i].id.v
    \/ \E j \in Indices(ItemsOf(bundle.pages)) :
          /\ CreatesPage(ItemsOf(bundle.pages)[j])
          /\ PageNodeId(ItemsOf(bundle.pages)[j].id.v) = ItemsOf(bundle.posts)[i].id.v

PageIdReused(i) ==
    \E j \in Indices(ItemsOf(bundle.pages)) :
        /\ j > i
        /\ CreatesPage(ItemsOf(bundle.pages)[j])
        /\ ItemsOf(bundle.pages)[j].id.v = ItemsOf(bundle.pages)[i].id.v

KindOf(id) == Get(DataOf(graph, id), "type", "None")

\* C14 as stated: a node made from an item of posts has kind Post and a node
\* made from an item of pages has kind Page, whatever the item carries.
KindFollowsSequence ==
    Returned =>
        /\ \A i \in Indices(ItemsOf(bundle.posts)) :
              CreatesPost(ItemsOf(bundle.posts)[i]) =>
                  /\ has_node(graph, ItemsOf(bundle.posts)[i].id.v)
                  /\ KindOf(ItemsOf(bundle.posts)[i].id.v) = "post"
        /\ \A i \in Indices(ItemsOf(bundle.pages)) :
              CreatesPage(ItemsOf(bundle.pages)[i]) =>
                  /\ has_node(graph, PageNodeId(ItemsOf(bundle.pages)[i].id.v))
                  /\ KindOf(PageNodeId(ItemsOf(bundle.pages)[i].id.v)) = "page"

\* C14 amended: the node has the kind the item's own 'type' field names, and
\* Post (for posts) or Page (for pages) only when the item has no such field;
\* this for the last item that resolves to the node's id.
KindFollowsItemType ==
    Returned =>
        /\ \A i \in Indices(ItemsOf(bundle.posts)) :
              LET post == ItemsOf(bundle.posts)[i]
              IN  (CreatesPost(post) /\ ~PostIdReused(i)) =>
                      /\ has_node(graph, post.id.v)
                      /\ KindOf(post.id.v)
                           = IF post.type = "absent" THEN "post" ELSE post.type
        /\ \A i \in Indices(ItemsOf(bundle.pages)) :
              LET page == ItemsOf(bundle.pages)[i]
              IN  (CreatesPage(page) /\ ~PageIdReused(i)) =>
                      /\ has_node(graph, PageNodeId(page.id.v))
                      /\ KindOf(PageNodeId(page.id.v))
                           = IF page.type = "absent" THEN "page" ELSE page.type

\* a posts item that says 'page' and a pages item that says 'post' were built
\* next to a post without a type
TypedItemsBuilt ==
    /\ Returned
    /\ ItemsOf(bundle.posts) = <<PostTypedPage, PostA>>
    /\ ItemsOf(bundle.pages) = <<PageTypedPost>>
    /\ KindOf(PostTypedPage.id.v) = "page"
    /\ KindOf(PostA.id.v) = "post"
    /\ KindOf(PageNodeId(PageTypedPost.id.v)) = "post"

(***************************************************************************)
(* Internal links (Spec)                                                   *)
(***************************************************************************)
LinkEdges == {e \in BagToSet(edges) : e.type = "internal_link"}

\* the URLs the link scan finds in the body kept on node i
LinksOf(i) ==
    LET found == FindLinks(Get(nodes[i].data, "content", <<>>), 1)
    IN  {found[k] : k \in Indices(found)}

\* the earliest-inserted node whose url is u
FirstWithUrl(u) ==
    nodes[CHOOSE i \in UrlMatches(nodes, u) : \A j \in UrlMatches(nodes, u) : i <= j].id

\* a post or page node has the url
ContentNodeHasUrl(u) ==
    \E i \in UrlMatches(nodes, u) : "content" \in DOMAIN nodes[i].data

\* C15: an internal-link edge goes to the first node in insertion order
\* whose url equals a URL found in the source's body, and to no other node
\* with that url; a URL that is no node's url adds no edge.
InternalLinkGoesToFirstMatch ==
    Returned =>
        /\ \A e \in LinkEdges :
              \E u \in LinksOf(NodeIndex(graph, e.s)) :
                  /\ UrlMatches(nodes, u) # {}
                  /\ e.t = FirstWithUrl(u)
        /\ \A i \in Indices(nodes) : \A u \in LinksOf(i) :
              ContentNodeHasUrl(u) =>
                  [s |-> nodes[i].id, t |-> FirstWithUrl(u), type |-> "internal_link"]
                      \in LinkEdges

\* two nodes share a url that a body links to: the earlier one has the edge,
\* the later one has none
SharedUrlLinked ==
    /\ Returned
    /\ \E i, j \in Indices(nodes) :
          /\ i < j
          /\ j \in UrlMatches(nodes, Get(nodes[i].data, "url", NO_URL))
          /\ \E e \in LinkEdges : e.t = nodes[i].id /\ e.s # e.t
          /\ \A e \in LinkEdges : e.t # nodes[j].id
    /\ \E i \in Indices(nodes) : \E u \in LinksOf(i) : UrlMatches(nodes, u) = {}

(***************************************************************************)
(* The graph is a simple directed graph (Spec)                             *)
(***************************************************************************)
Successors(id) == {e.t : e \in {x \in BagToSet(edges) : x.s = id}}
Predecessors(id) == {e.s : e \in {x \in BagToSet(edges) : x.t = id}}

\* C16: there is at most one edge for every ordered pair (source, target),
\* so an out-degree is the number of distinct targets and an in-degree the
\* number of distinct sources, however often a URL or a reference repeats.
GraphIsSimple ==
    /\ \A e \in BagToSet(edges) : CopiesIn(e, edges) = 1
    /\ \A e1, e2 \in BagToSet(edges) : (e1.s = e2.s /\ e1.t = e2.t) => e1 = e2
    /\ \A id \in NodeIds(graph) :
          /\ out_degree(graph, id) = Cardinality(Successors(id))
          /\ in_degree(graph, id) = Cardinality(Predecessors(id))

\* a post that names B's URL twice, category 1 three times and tag 1 three
\* times was built: one edge to each
RepeatedReferencesBuilt ==
    /\ Returned
    /\ ItemsOf(bundle.posts) = <<PostRepeat, PostB>>
    /\ ItemsOf(bundle.pages) = <<>>
    /\ Successors(PostRepeat.id.v) = {PostB.id.v, NodeId("cat_", 1), NodeId("tag_", 1)}
    /\ out_degree(graph, PostRepeat.id.v) = 3
    /\ in_degree(graph, PostB.id.v) = 1
    /\ in_degree(graph, NodeId("tag_", 1)) = 1
    /\ in_degree(graph, NodeId("cat_", 1)) = 2

(***************************************************************************)
(* The analyzer only reads the graph (Spec)                                *)
(***************************************************************************)
\* C17: analyze_content_depth, with the identify_semantic_clusters call it
\* makes, leaves the node list, every node attribute and the edges as they
\* were when it was called.
AnalyzeLeavesGraphUnchanged ==
    [][(pc = "done" /\ pc' \in {"analyzed", "analyze_raised"})
          => (nodes' = nodes /\ edges' = edges)]_vars

\* a graph with posts, edges and a cluster has been analyzed
LinkedGraphAnalyzed ==
    /\ pc = "analyzed"
    /\ Len(report.content_scores) > 1
    /\ report.semantic_clusters # <<>>
    /\ LinkEdges # {}
    /\ graph = build_content_graph(EmptyGraph, bundle, SeedInUse).g

(***************************************************************************)
(* Seeds and the visited set (SpecCluster)                                 *)
(***************************************************************************)
\* the cluster opened at position a of the pass was not kept
Discarded(a) == Len(opened[a].members) <= 1

HasTermsDoc(id) == cdocs[DocIndex(id)].terms

\* C19: a node added as a member of a cluster opened earlier in the pass,
\* kept or discarded, is never the center of a cluster opened later.
MemberNeverLaterCenter ==
    \A a, b \in Indices(opened) :
        a < b => opened[b].center \notin MemberIds(opened[a].members)

\* a node joined the first cluster as a neighbour of its center and the pass
\* went on to open another cluster at a later node
NeighbourSkippedAsSeed ==
    /\ cpc = "done"
    /\ Len(opened) > 1
    /\ \E m \in Indices(opened[1].members) :
          /\ opened[1].members[m].id # opened[1].center
          /\ \A b \in Indices(opened) : opened[b].center # opened[1].members[m].id

\* the seed of a discarded cluster is neither center nor member afterwards
NeverAgain(a) ==
    \A b \in Indices(opened) :
        b > a => /\ opened[b].center # opened[a].center
                 /\ opened[a].center \notin MemberIds(opened[b].members)

\* C20 as stated: the seed of a discarded cluster is marked visited, and is
\* neither the center nor a member of a cluster opened later.
DiscardedSeedMarkedVisited ==
    \A a \in Indices(opened) :
        Discarded(a) => (opened[a].center \in visited /\ NeverAgain(a))

\* C20 amended: the seed of a discarded cluster is marked visited when its
\* text has a term (it is then its own member); with or without a term it
\* is neither the center nor a member of a cluster opened later.
DiscardedSeedNeverReturns ==
    \A a \in Indices(opened) :
        Discarded(a) =>
            /\ HasTermsDoc(opened[a].center) => opened[a].center \in visited
            /\ NeverAgain(a)

\* the pass discarded a seed that has terms and one that has none, and
\* opened a cluster after each
DiscardedSeedsPassed ==
    /\ cpc = "done"
    /\ \E a, b \in Indices(opened) :
          /\ a < b /\ Discarded(a)
          /\ HasTermsDoc(opened[a].center)
          /\ opened[a].center \in visited
    /\ \E a, b \in Indices(opened) :
          /\ a < b /\ Discarded(a)
          /\ ~HasTermsDoc(opened[a].center)
          /\ opened[a].center \notin visited

(***************************************************************************)
(* Hub and orphan lists (SpecAnalyze)                                      *)
(***************************************************************************)
DepthOfNode(id) == calculate_content_depth(Get(DataOf(graph, id), "content", <<>>))

OutEdges(id) == BagCardinality(EdgesWhere(graph, {e \in BagToSet(edges) : e.s = id}))
InEdges(id) == BagCardinality(EdgesWhere(graph, {e \in BagToSet(edges) : e.t = id}))

\* C21: the hub list is exactly the content nodes with out-degree > 5 and
\* depth score > 0.7, the orphan list exactly those with in-degree 0 and
\* out-degree < 2; a node on a boundary value (out-degree 5, depth 0.7,
\* out-degree 2) is in neither.
HubAndOrphanListsExact ==
    pc = "analyzed" =>
        /\ EntryNodes(report.hub_potential)
             = {id \in ContentNodeIds : OutEdges(id) > 5 /\ DepthOfNode(id) > 7}
        /\ EntryNodes(report.orphan_content)
             = {id \in ContentNodeIds : InEdges(id) = 0 /\ OutEdges(id) < 2}
        /\ Len(report.hub_potential) = Cardinality(EntryNodes(report.hub_potential))
        /\ Len(report.orphan_content) = Cardinality(EntryNodes(report.orphan_content))

\* analyze left out a post with out-degree exactly 5 and depth above 0.7 and
\* a page with no backlink and out-degree exactly 2
BoundaryNodesLeftOut ==
    /\ pc = "analyzed"
    /\ OutEdges(NodeId("", 1)) = 5 /\ DepthOfNode(NodeId("", 1)) = 8
    /\ InEdges(NodeId("page_", 1)) = 0 /\ OutEdges(NodeId("page_", 1)) = 2
    /\ report.hub_potential = <<>> /\ report.orphan_content = <<>>

\* analyze listed the post with out-degree 6 and depth exactly 0.8 as a hub
\* and left it out at depth exactly 0.7
DepthBoundaryLeftOut ==
    /\ pc = "analyzed"
    /\ OutEdges(NodeId("", 1)) = 6 /\ DepthOfNode(NodeId("", 1)) = 7
    /\ report.hub_potential = <<>>

(***************************************************************************)
(* SpecClean: clean_html applied to a string, and again to its own output  *)
(***************************************************************************)
MaxLen == 4                     \* characters of the input string

CleanAlphabet == {LT, GT, SP, NL, Ch("a")}

InitClean ==
    /\ NoBuild /\ NoDepth /\ NoCluster /\ NoPlan /\ NoWalk
    /\ raw_html \in SeqsUpTo(CleanAlphabet, MaxLen)
    /\ cleaned = <<>>

CleanHtml ==
    /\ cleaned = <<>>
    /\ cleaned' = <<clean_html(raw_html)>>
    /\ UNCHANGED raw_html
    /\ UNCHANGED buildVars /\ UNCHANGED depthVars /\ UNCHANGED clusterVars
    /\ UNCHANGED planVars /\ UNCHANGED walkVars

CleanAgain ==
    /\ Len(cleaned) = 1
    /\ cleaned' = Append(cleaned, clean_html(cleaned[1]))
    /\ UNCHANGED raw_html
    /\ UNCHANGED buildVars /\ UNCHANGED depthVars /\ UNCHANGED clusterVars
    /\ UNCHANGED planVars /\ UNCHANGED walkVars

NextClean == CleanHtml \/ CleanAgain

SpecClean == InitClean /\ [][NextClean]_vars

\* a "<" with a ">" somewhere after it
HasTag(text) ==
    \E i, j \in Indices(text) : i < j /\ text[i].k = "<" /\ text[j].k = ">"

\* no leading or trailing whitespace, no two whitespace characters in a row
SpaceNormal(text) ==
    /\ text # <<>> => (~IsSpace(text[1]) /\ ~IsSpace(text[Len(text)]))
    /\ \A i \in 1..(Len(text) - 1) : ~(IsSpace(text[i]) /\ IsSpace(text[i + 1]))

\* C22: the output of clean_html holds no markup tag (no "<" followed later
\* by ">"), also when the tag spans a line break, and has no leading or
\* trailing whitespace and no run of two or more whitespace characters.
CleanedHasNoTag ==
    cleaned # <<>> => (~HasTag(cleaned[1]) /\ SpaceNormal(cleaned[1]))

\* C29: clean_html is idempotent: clean_html(clean_html(x)) = clean_html(x).
CleanHtmlIdempotent ==
    Len(cleaned) = 2 => cleaned[2] = cleaned[1]

(***************************************************************************)
(* Field shapes (Spec)                                                     *)
(***************************************************************************)
\* the same text in the other shape: a plain string as {'rendered': s} and
\* the reverse; an absent field or an empty holder as the empty string
OtherShape(field) ==
    CASE field.shape = "str" -> Nested(field.s)
      [] field.shape = "nested" -> Str(field.s)
      [] field.shape = "absent" -> Str(<<>>)
      [] field.shape = "nested_empty" -> Str(<<>>)
      [] OTHER -> field

Reshaped(item, f) == [item EXCEPT ![f] = OtherShape(@)]

\* C23: an item with its title, body or excerpt in one shape produces the
\* same node attributes as the item with that field in the other shape, and
\* an absent field produces the empty string; this field by field.
ShapeIndependentIngestion ==
    Returned =>
        /\ \A i \in Indices(ItemsOf(bundle.posts)) :
           \A f \in {"title", "content", "excerpt"} :
              LET post == ItemsOf(bundle.posts)[i]
                  alt == Reshaped(post, f)
              IN  post.rec =>
                    /\ CreatesPost(alt) = CreatesPost(post)
                    /\ (CreatesPost(post) /\ ~PostIdReused(i)) =>
                          /\ DataOf(graph, post.id.v)
                               = ingest_post(EmptyGraph, alt).g.nodes[1].data
                          /\ post[f].shape = "absent" =>
                                DataOf(graph, post.id.v)[f]
                                  = IF f = "title" THEN Str(<<>>) ELSE <<>>
        /\ \A i \in Indices(ItemsOf(bundle.pages)) :
           \A f \in {"title", "content"} :
              LET page == ItemsOf(bundle.pages)[i]
                  alt == Reshaped(page, f)
              IN  page.rec =>
                    /\ CreatesPage(alt) = CreatesPage(page)
                    /\ (CreatesPage(page) /\ ~PageIdReused(i)) =>
                          DataOf(graph, PageNodeId(page.id.v))
                            = ingest_page(EmptyGraph, alt).g.nodes[1].data

\* a post with a plain-string body and one with a nested body were built,
\* each with its text on the node, and the absent excerpt became empty
BothShapesBuilt ==
    /\ Returned
    /\ ItemsOf(bundle.posts) = <<PostA, PostB>>
    /\ PostA.content.shape = "str" /\ PostB.content.shape = "nested"
    /\ DataOf(graph, PostA.id.v).content = TxtLinkB
    /\ DataOf(graph, PostB.id.v).content = clean_html(TxtHtml)
    /\ DataOf(graph, PostB.id.v).content # <<>>
    /\ DataOf(graph, PostA.id.v).excerpt = <<>>

(***************************************************************************)
(* Taxonomy edges (Spec)                                                   *)
(***************************************************************************)
\* positions of the nodes of the type whose name is s up to case
NamedLike(type, s) ==
    {i \in Indices(nodes) :
        /\ Get(nodes[i].data, "type", "None") = type
        /\ Lower(Get(nodes[i].data, "name", "")) = Lower(s)}

\* the nodes the references name, as far as they exist
ReferencedNodes(refs, pre, type) ==
    {NodeId(pre, refs[k].n) :
        k \in {x \in Indices(refs) :
                  refs[x].k = "int" /\ has_node(graph, NodeId(pre, refs[x].n))}}
    \cup {nodes[CHOOSE i \in NamedLike(type, refs[k].s) :
                   \A j \in NamedLike(type, refs[k].s) : i <= j].id :
            k \in {x \in Indices(refs) :
                      refs[x].k = "str" /\ NamedLike(type, refs[x].s) # {}}}

TaxonomyTargets(id, edgetype) == {e.t : e \in EdgesFrom(id, edgetype)}

\* C24: taxonomy edges leave Post nodes only; a Post node has a
\* categorized_as edge to exactly the nodes its category references resolve
\* to ("cat_"+n for a number, the first category node with that name up to
\* case for a string) as far as they exist, and likewise tagged_as edges for
\* its tag references; a Page node has neither.
TaxonomyEdgesResolveReferences ==
    Returned =>
        /\ \A e \in BagToSet(edges) :
              e.type \in {"categorized_as", "tagged_as"} => KindOf(e.s) = "post"
        /\ \A i \in Indices(nodes) :
              KindOf(nodes[i].id) = "post" =>
                  /\ TaxonomyTargets(nodes[i].id, "categorized_as")
                       = ReferencedNodes(Get(nodes[i].data, "categories", Refs(<<>>)).refs,
                                         "cat_", "category")
                  /\ TaxonomyTargets(nodes[i].id, "tagged_as")
                       = ReferencedNodes(Get(nodes[i].data, "tags", Refs(<<>>)).refs,
                                         "tag_", "tag")
        /\ \A i \in Indices(nodes) :
              KindOf(nodes[i].id) = "page" =>
                  /\ TaxonomyTargets(nodes[i].id, "categorized_as") = {}
                  /\ TaxonomyTargets(nodes[i].id, "tagged_as") = {}

\* a numeric reference, a name reference in another case and a reference to
\* a missing category were resolved next to a page
ReferencesResolved ==
    /\ Returned
    /\ ItemsOf(bundle.posts) = <<PostA, PostB>>
    /\ ItemsOf(bundle.pages) = <<PageOk>>
    /\ TaxonomyTargets(PostA.id.v, "categorized_as") = {NodeId("cat_", 1)}
    /\ TaxonomyTargets(PostB.id.v, "categorized_as") = {NodeId("cat_", 1)}
    /\ TaxonomyTargets(PostA.id.v, "tagged_as") = {NodeId("tag_", 1)}
    /\ ~has_node(graph, NodeId("cat_", 9))

(***************************************************************************)
(* Recommendations and action plan (SpecPlan)                              *)
(***************************************************************************)
MaxGaps == 2
MaxOrphans == 6
MaxHubs == 4
MaxClusters == 4

\* the slices [:5], [:3] and [:3] of generate_recommendations
ORPHAN_TOP == 5
HUB_TOP == 3
CLUSTER_TOP == 3

\* one recommendation; details names the item it was made for
Recommendation(type, priority, action, item, impact) ==
    [type |-> type, priority |-> priority, action |-> action,
     details |-> <<type, item>>, impact |-> impact]

RecommendationsFor(n, type, priority, action, impact) ==
    [i \in 1..n |-> Recommendation(type, priority, action, i, impact)]

\* generate_recommendations: gaps, then orphans, hubs and clusters
generate_recommendations(input) ==
    RecommendationsFor(IF input.has_gaps THEN input.gaps ELSE 0,
                       "content_gap", "high", "Create new content",
                       "Enables multi-hop reasoning path")
    \o RecommendationsFor(Min(input.orphans, ORPHAN_TOP),
                          "orphan_content", "medium", "Add internal links",
                          "Improves content graph connectivity")
    \o RecommendationsFor(Min(input.hubs, HUB_TOP),
                          "hub_optimization", "high", "Enhance hub page",
                          "Strengthens multi-source selection")
    \o RecommendationsFor(Min(input.clusters, CLUSTER_TOP),
                          "semantic_bridge", "medium", "Create semantic bridges",
                          "Enables query fan-out paths")

PlanEntry(rec) ==
    [action |-> rec.action, details |-> rec.details,
     expected_impact |-> rec.impact]

\* a plan that files everything that is not high under long_term
PlanBucketHighOnly(priority) ==
    IF priority = "high" THEN "immediate" ELSE "long_term"

\* the branch of create_action_plan a priority takes
PlanBucket(priority) ==
    IF priority = "high" THEN "immediate"
    ELSE IF priority = "medium" THEN "short_term"
    ELSE "long_term"

RECURSIVE PlanFrom(_, _, _)
PlanFrom(recs, k, plan) ==
    IF k > Len(recs) THEN plan
    ELSE LET b == PlanBucket(recs[k].priority)
         IN  PlanFrom(recs, k + 1,
                      [plan EXCEPT ![b] = Append(@, PlanEntry(recs[k]))])

create_action_plan(recs) ==
    PlanFrom(recs, 1,
             [immediate |-> <<>>, short_term |-> <<>>, long_term |-> <<>>])

InitPlan ==
    /\ NoBuild /\ NoDepth /\ NoCluster /\ NoClean /\ NoWalk
    /\ pinput \in [has_gaps : BOOLEAN, gaps : 0..MaxGaps,
                   orphans : 0..MaxOrphans, hubs : 0..MaxHubs,
                   clusters : 0..MaxClusters]
    /\ recommendations = <<>>
    /\ action_plan = <<>>
    /\ ppc = "start"

GenerateRecommendations ==
    /\ ppc = "start"
    /\ recommendations' = generate_recommendations(pinput)
    /\ ppc' = "recommended"
    /\ UNCHANGED <<pinput, action_plan>>
    /\ UNCHANGED buildVars /\ UNCHANGED depthVars /\ UNCHANGED clusterVars
    /\ UNCHANGED cleanVars /\ UNCHANGED walkVars

CreateActionPlan ==
    /\ ppc = "recommended"
    /\ action_plan' = create_action_plan(recommendations)
    /\ ppc' = "planned"
    /\ UNCHANGED <<pinput, recommendations>>
    /\ UNCHANGED buildVars /\ UNCHANGED depthVars /\ UNCHANGED clusterVars
    /\ UNCHANGED cleanVars /\ UNCHANGED walkVars

NextPlan == GenerateRecommendations \/ CreateActionPlan

SpecPlan == InitPlan /\ [][NextPlan]_vars

\* the plan entries of the recommendations of the given types, in order
EntriesOfTypes(types) ==
    LET sel == SelectSeq(recommendations, LAMBDA r : r.type \in types)
    IN  [i \in 1..Len(sel) |-> PlanEntry(sel[i])]

\* C25: the immediate bucket holds the content-gap and hub recommendations
\* and the short-term bucket the orphan and semantic-bridge recommendations,
\* each in recommendation order; the long-term bucket is empty and the three
\* buckets together hold as many entries as there are recommendations.
PlanBucketsByKind ==
    ppc = "planned" =>
        /\ action_plan.immediate
             = EntriesOfTypes({"content_gap", "hub_optimization"})
        /\ action_plan.short_term
             = EntriesOfTypes({"orphan_content", "semantic_bridge"})
        /\ action_plan.long_term = <<>>
        /\ Len(action_plan.immediate) + Len(action_plan.short_term)
             + Len(action_plan.long_term) = Len(recommendations)

\* a plan made from recommendations of all four kinds, with more orphans,
\* hubs and clusters reported than are taken up
AllKindsPlanned ==
    /\ ppc = "planned"
    /\ pinput.has_gaps /\ pinput.gaps = MaxGaps
    /\ pinput.orphans > ORPHAN_TOP
    /\ pinput.hubs > HUB_TOP
    /\ pinput.clusters > CLUSTER_TOP
    /\ Len(action_plan.immediate) = MaxGaps + HUB_TOP
    /\ Len(action_plan.short_term) = ORPHAN_TOP + CLUSTER_TOP

(***************************************************************************)
(* Score entries of the report (Spec)                                      *)
(***************************************************************************)
EntriesFor(id) ==
    {i \in Indices(report.content_scores) : report.content_scores[i].node = id}

ScoreEntries == {report.content_scores[i] : i \in Indices(report.content_scores)}

\* C26: the report has exactly one score entry for every post or page node
\* and none for any other node; an entry's internal_links is the number of
\* the node's successors and its backlinks the number of its predecessors in
\* the graph, over edges of every kind; every hub and every orphan listed is
\* one of the entries.
OneScoreEntryPerContentNode ==
    pc = "analyzed" =>
        /\ \A i \in Indices(nodes) :
              Cardinality(EntriesFor(nodes[i].id))
                = IF KindOf(nodes[i].id) \in {"post", "page"} THEN 1 ELSE 0
        /\ \A e \in ScoreEntries : has_node(graph, e.node)
        /\ \A e \in ScoreEntries :
              /\ e.internal_links = Cardinality(Successors(e.node))
              /\ e.backlinks = Cardinality(Predecessors(e.node))
        /\ \A i \in Indices(report.hub_potential) :
              report.hub_potential[i] \in ScoreEntries
        /\ \A i \in Indices(report.orphan_content) :
              report.orphan_content[i] \in ScoreEntries

\* a post with an internal link, a category and a tag was scored next to a
\* linked page, with category and tag nodes in the graph
AllEdgeKindsCounted ==
    /\ pc = "analyzed"
    /\ \E e \in ScoreEntries :
          /\ EdgesFrom(e.node, "internal_link") # {}
          /\ EdgesFrom(e.node, "categorized_as") # {}
          /\ EdgesFrom(e.node, "tagged_as") # {}
          /\ e.internal_links >= 3
    /\ \E e \in ScoreEntries : KindOf(e.node) = "page" /\ e.backlinks >= 1
    /\ \E i \in Indices(nodes) : KindOf(nodes[i].id) = "category"
    /\ \E i \in Indices(nodes) : KindOf(nodes[i].id) = "tag"
    /\ report.orphan_content # <<>>

(***************************************************************************)
(* Shape of the returned clusters (SpecCluster)                            *)
(***************************************************************************)

\* C27: every returned cluster has more than one member, lists its center
\* among its members and holds a node other than the center; the members of
\* a cluster stand in collection order and the clusters in the order of
\* their centers.
ReturnedClustersWellFormed ==
    /\ \A c \in Indices(clusters) :
          /\ Len(clusters[c].members) > 1
          /\ clusters[c].center \in MemberIds(clusters[c].members)
          /\ MemberIds(clusters[c].members) \ {clusters[c].center} # {}
          /\ \A a, b \in Indices(clusters[c].members) :
                a < b => DocIndex(clusters[c].members[a].id)
                           < DocIndex(clusters[c].members[b].id)
    /\ \A c, d \in Indices(clusters) :
          c < d => DocIndex(clusters[c].center) < DocIndex(clusters[d].center)

\* the pass returned two clusters, the second one opened at the third node
TwoClustersReturned ==
    /\ cpc = "done"
    /\ Len(clusters) = 2
    /\ clusters[1].center = cdocs[1].id
    /\ clusters[2].center = cdocs[3].id
    /\ Len(clusters[2].members) = 2

(***************************************************************************)
(* Order of the phases of one build (Spec)                                 *)
(***************************************************************************)
\* the nodes the posts and pages loops create
ContentItemIds ==
    {ItemsOf(bundle.posts)[i].id.v :
        i \in {j \in Indices(ItemsOf(bundle.posts)) : CreatesPost(ItemsOf(bundle.posts)[j])}}
    \cup {PageNodeId(ItemsOf(bundle.pages)[i].id.v) :
            i \in {j \in Indices(ItemsOf(bundle.pages)) : CreatesPage(ItemsOf(bundle.pages)[j])}}

IsTaxonomyNode(id) == KindOf(id) \in {"category", "tag"}

\* C28: in one build on a fresh builder the links are resolved when every
\* post and page node is in the graph and no category or tag node is, so an
\* internal_link edge joins two nodes made from posts or pages, also when a
\* category or tag from the sitemap carries the linked URL, and a category
\* or tag node has no outgoing edge.
LinksResolvedBeforeTaxonomy ==
    /\ pc = "links" => ContentItemIds \subseteq NodeIds(graph)
    /\ pc \in {"posts", "pages", "links"} =>
          \A id \in NodeIds(graph) : ~IsTaxonomyNode(id)
    /\ pc \in {"posts", "pages", "links"} => LinkEdges = {}
    /\ \A e \in LinkEdges :
          /\ e.s \in ContentItemIds /\ ~IsTaxonomyNode(e.s)
          /\ e.t \in ContentItemIds /\ ~IsTaxonomyNode(e.t)
    /\ \A id \in NodeIds(graph) : IsTaxonomyNode(id) => Successors(id) = {}

\* a build resolved one link between posts and left alone the link to the
\* URL that a category from the sitemap carries
LinkToCategoryUrlLeftOut ==
    /\ Returned
    /\ ItemsOf(bundle.posts) = <<PostLinkCat, PostA, PostB>>
    /\ \E id \in NodeIds(graph) :
          /\ KindOf(id) = "category"
          /\ Get(DataOf(graph, id), "url", NO_URL) = 3
          /\ \A e \in LinkEdges : e.t # id
          /\ EdgesFrom(PostB.id.v, "categorized_as") # {}
    /\ Successors(PostLinkCat.id.v) = {}
    /\ [s |-> PostA.id.v, t |-> PostB.id.v, type |-> "internal_link"] \in LinkEdges

(***************************************************************************)
(* SitemapFetcher.get_all_urls_from_sitemap (SpecWalk)                     *)
(*                                                                         *)
(* What the site serves is a function from sitemap URLs to                 *)
(* [kind, nested, pages]: an "index" lists nested sitemap URLs, a "urlset" *)
(* lists page URLs; "request_error" (session.get or raise_for_status       *)
(* raises), "not_xml" (empty or HTML response) and "parse_error"           *)
(* (ET.fromstring raises) are the ways a sitemap fails.  wstack holds the  *)
(* calls of parse_sitemap in progress, innermost last: a frame is at       *)
(* "enter" before the visited test and at "loop" inside the loop over the  *)
(* nested sitemaps, pos being the next element.                            *)
(***************************************************************************)
MaxNested == 3

SitemapUrls == {1, 2, 3}
RootSitemap == 1
LeafSitemaps == {3}             \* sitemaps that are never an index
FailKinds == {"request_error", "not_xml", "parse_error"}

PagesOf(u) == {{10 + u}, {10, 10 + u}}

SitemapChoices(u) ==
    (IF u \in LeafSitemaps THEN {}
     ELSE {[kind |-> "index", nested |-> q, pages |-> {}] :
              q \in SeqsUpTo(SitemapUrls, MaxNested)})
    \cup {[kind |-> "urlset", nested |-> <<>>, pages |-> P] : P \in PagesOf(u)}
    \cup {[kind |-> k, nested |-> <<>>, pages |-> {}] : k \in FailKinds}

Frame(url, phase, pos) == [url |-> url, phase |-> phase, pos |-> pos]
TopFrame == wstack[Len(wstack)]
PopFrame(stack) == SubSeq(stack, 1, Len(stack) - 1)

\* a failure that leaves parse_sitemap and every call above it
AfterFailureUnwinds(stack) == <<>>

\* the except clauses log and parse_sitemap returns to its caller
AfterFailure(stack) == PopFrame(stack)

InitWalk ==
    /\ NoBuild /\ NoDepth /\ NoCluster /\ NoClean /\ NoPlan
    /\ sitemaps \in [SitemapUrls -> UNION {SitemapChoices(u) : u \in SitemapUrls}]
    /\ \A u \in SitemapUrls : sitemaps[u] \in SitemapChoices(u)
    /\ wstack = <<Frame(RootSitemap, "enter", 0)>>
    /\ visited_sitemaps = {}
    /\ urls = {}
    /\ fetches = [u \in SitemapUrls |-> 0]
    /\ wpc = "walk"

OtherThanWalk ==
    /\ UNCHANGED buildVars /\ UNCHANGED depthVars /\ UNCHANGED clusterVars
    /\ UNCHANGED cleanVars /\ UNCHANGED planVars

\* if url in visited_sitemaps: return
SkipVisited ==
    /\ wpc = "walk" /\ wstack # <<>>
    /\ TopFrame.phase = "enter"
    /\ TopFrame.url \in visited_sitemaps
    /\ wstack' = PopFrame(wstack)
    /\ UNCHANGED <<sitemaps, visited_sitemaps, urls, fetches>>
    /\ UNCHANGED wpc
    /\ OtherThanWalk

\* visited_sitemaps.add(url); session.get(url)
Fetching ==
    /\ wpc = "walk" /\ wstack # <<>>
    /\ TopFrame.phase = "enter"
    /\ TopFrame.url \notin visited_sitemaps
    /\ visited_sitemaps' = visited_sitemaps \cup {TopFrame.url}
    /\ fetches' = [fetches EXCEPT ![TopFrame.url] = @ + 1]

FetchFails ==
    /\ Fetching
    /\ sitemaps[TopFrame.url].kind \in FailKinds
    /\ wstack' = AfterFailure(wstack)
    /\ UNCHANGED <<sitemaps, urls, wpc>>
    /\ OtherThanWalk

\* for url_elem in url_elements: urls.add(url_elem.text)
ReadUrlset ==
    /\ Fetching
    /\ sitemaps[TopFrame.url].kind = "urlset"
    /\ urls' = urls \cup sitemaps[TopFrame.url].pages
    /\ wstack' = PopFrame(wstack)
    /\ UNCHANGED <<sitemaps, wpc>>
    /\ OtherThanWalk

\* if root.tag.endswith('sitemapindex'): sitemap_elements = findall(...)
ReadIndex ==
    /\ Fetching
    /\ sitemaps[TopFrame.url].kind = "index"
    /\ wstack' = [wstack EXCEPT ![Len(wstack)] = Frame(TopFrame.url, "loop", 1)]
    /\ UNCHANGED <<sitemaps, urls, wpc>>
    /\ OtherThanWalk

\* parse_sitemap(nested_sitemap_url)
CallNested ==
    /\ wpc = "walk" /\ wstack # <<>>
    /\ TopFrame.phase = "loop"
    /\ TopFrame.pos <= Len(sitemaps[TopFrame.url].nested)
    /\ wstack' = Append([wstack EXCEPT ![Len(wstack)].pos = @ + 1],
                        Frame(sitemaps[TopFrame.url].nested[TopFrame.pos], "enter", 0))
    /\ UNCHANGED <<sitemaps, visited_sitemaps, urls, fetches, wpc>>
    /\ OtherThanWalk

\* the loop over sitemap_elements is over
ReturnFromIndex ==
    /\ wpc = "walk" /\ wstack # <<>>
    /\ TopFrame.phase = "loop"
    /\ TopFrame.pos > Len(sitemaps[TopFrame.url].nested)
    /\ wstack' = PopFrame(wstack)
    /\ UNCHANGED <<sitemaps, visited_sitemaps, urls, fetches, wpc>>
    /\ OtherThanWalk

\* return urls
ReturnUrls ==
    /\ wpc = "walk" /\ wstack = <<>>
    /\ wpc' = "done"
    /\ UNCHANGED <<sitemaps, wstack, visited_sitemaps, urls, fetches>>
    /\ OtherThanWalk

NextWalk ==
    \/ SkipVisited
    \/ FetchFails
    \/ ReadUrlset
    \/ ReadIndex
    \/ CallNested
    \/ ReturnFromIndex
    \/ ReturnUrls

\* the walk is one thread that runs on until it returns
SpecWalk == InitWalk /\ [][NextWalk]_vars /\ WF_vars(NextWalk)

\* the sitemaps listed by the indexes among S
ListedBy(S) ==
    UNION {{sitemaps[u].nested[k] : k \in Indices(sitemaps[u].nested)} :
             u \in {v \in S : sitemaps[v].kind = "index"}}

RECURSIVE ReachableFrom(_)
ReachableFrom(S) ==
    IF ListedBy(S) \subseteq S THEN S ELSE ReachableFrom(S \cup ListedBy(S))

ReachableSitemaps == ReachableFrom({RootSitemap})

WalkResultExact ==
    /\ \A u \in SitemapUrls : fetches[u] <= 1
    /\ wpc = "done" =>
          /\ urls = UNION {sitemaps[u].pages :
                             u \in {v \in ReachableSitemaps : sitemaps[v].kind = "urlset"}}
          /\ \A u \in SitemapUrls :
                fetches[u] = IF u \in ReachableSitemaps THEN 1 ELSE 0

\* C30: the walk returns whatever the sitemaps list, also when indexes list
\* each other or themselves; no sitemap is fetched twice, a sitemap that
\* fails is passed over and the walk goes on, and the result is the page
\* URLs of the url sets that can be reached from the root through indexes.
SitemapWalkTerminates == []WalkResultExact /\ <>(wpc = "done")

\* a walk is over in which the root index lists itself, a sitemap that
\* fails and then a url set, whose pages are the result
CyclicWalkWithFailureDone ==
    /\ wpc = "done"
    /\ sitemaps[RootSitemap].kind = "index"
    /\ sitemaps[RootSitemap].nested = <<1, 2, 3>>
    /\ sitemaps[2].kind \in FailKinds
    /\ sitemaps[3].kind = "urlset"
    /\ urls = sitemaps[3].pages
    /\ urls # {}

====
